---- MODULE Spec2Model ----
(***************************************************************************)
(* Model of the remote-inject relay server: the in-memory session store    *)
(* (packages/server/src/session.ts) and the WebSocket surface that is      *)
(* built on it (the /ws route, kept in packages/server/src/ratelimit.ts    *)
(* from line 396 on).                                                      *)
(***************************************************************************)
EXTENDS Integers, Sequences, FiniteSets, TLC

(* ---- bounds of the model ---- *)
NumConns == 3
MaxSend == 2
MaxTicks == 1
MaxPosts == 12
MaxCalls == 5
MaxClock == 5
MaxSockets == 3
MaxHandles == 7
MaxRequests == 2
MaxSweeperTicks == 2
MaxDraws == 2
MaxEmitted == 4
MaxReadDelay == 1

(* ---- program constants ---- *)
PENDING_TIMEOUT == 300000
CONNECTED_TIMEOUT == 86400000
MAX_SESSIONS == 2
REQUEST_TIMEOUT == 60000

(* ---- value domains ---- *)
SessionIds == {"A7X3", "K9M2"}
Secrets == {"SECRETAAAAAAAAAA", "SECRETBBBBBBBBBB"}
Roles == {"dapp", "mobile"}
Conns == 1..NumConns
NoConn == 0
Missing == ""
QuerySessions == SessionIds \cup {Missing}
QueryRoles == Roles \cup {"admin", Missing}
QueryKeys == Secrets \cup {Missing}
Forms == {"compact", "spaced", "text"}
\* the clock of the life cycle jumps past every expiry
TickSteps == {CONNECTED_TIMEOUT + 1}
\* the keys of the rate limiter: what getClientIP returns
\* the metadata argument of createSession: absent, or what POST /session built
\* from a body with name and url
undefined == "undefined"
DAppMetadata == "{name: 'DApp', url: 'https://dapp.example', icon: undefined}"
Metadatas == {undefined, DAppMetadata}

ClientIPs == {"203.0.113.7", "unknown"}
\* sessionRateLimiter = new RateLimiter({ windowMs: 60000, maxRequests: 10 })
sessionRateLimiterConfig == [windowMs |-> 60000, maxRequests |-> 10]

VARIABLES
    sessions,   \* the Map sessions: id -> Session record
    now,        \* Date.now()
    ticks,      \* number of clock advances so far
    cstate,     \* per connection handle: new, refused, upgraded, open, closing, closed
    httpStatus, \* per connection: status of the handshake response (0: none yet)
    csid,       \* per connection: ws.data.sessionId (the session query parameter)
    crole,      \* per connection: ws.data.role (the role query parameter)
    inbox,      \* per connection: the frames the relay has sent on it, in order
    closeInfo,  \* per connection: code and reason of a close issued by the relay
    sent,       \* per connection: the frames the client has sent on it, in order,
                \* each with the opposite-role slot of its session at that moment
    nsent,      \* number of frames clients have sent so far, over all connections
    reg,        \* per connection: what its open handler saw and did
    entries,    \* RateLimiter.entries: key -> [count, resetAt]
    config,     \* RateLimiter.config: [windowMs, maxRequests]
    calls,      \* per key: the check(key) calls so far, in order
    pending,    \* number of POST /session handlers suspended at await request.json()
    posts,      \* number of POST /session requests received so far
    postResp,   \* the response status of the latest POST /session admission
    probe,      \* the latest handshake request tried against the store, with its status
    bothAt,     \* per stored session that became connected: the last time a
                \* registration left both of its slots occupied
    provider,   \* the RemoteProvider of the DApp SDK: its private fields
    socks,      \* per WebSocket the provider created: its state and close code
    emitted,    \* the events the provider has emitted, in order
    rpc         \* the requests of the provider: requestId, pendingRequests, the
                \* pending request timers with the time each is due, and per
                \* request id the calls of its resolve and reject, in order

\* the variables of the HTTP surface and of the rate limiter
httpVars == <<entries, config, calls, pending, posts, postResp, probe>>

\* the variables of the DApp SDK
sdkVars == <<provider, socks, emitted, rpc>>

vars == <<sessions, now, ticks, cstate, httpStatus, csid, crole, inbox,
          closeInfo, sent, nsent, reg, httpVars, bothAt, sdkVars>>

(* ---- frames ---- *)
\* A frame is a text. A client frame carries a value (src, n) the client
\* chose, written in one of three ways: compact JSON (what JSON.stringify
\* prints), the same JSON value with insignificant white space, or text that
\* is not JSON.
ClientFrame(c, n, f) == [src |-> c, n |-> n, type |-> "payload", form |-> f]

\* JSON.stringify of a value: the compact text.
JSONstringify(v) == [src |-> v.src, n |-> v.n, type |-> v.type, form |-> "compact"]

RelayFrame(t) == JSONstringify([src |-> NoConn, n |-> 0, type |-> t])
ReadyFrame == RelayFrame("ready")
DappReconnectedFrame == RelayFrame("dapp_reconnected")
ErrorFrame == RelayFrame("error")
DisconnectFrame == RelayFrame("disconnect")

\* The message argument of the ws message handler: the framework hands a
\* JSON text over as the parsed value and any other text as the string.
parseMessage(raw) ==
    IF raw.form = "text"
    THEN [isString |-> TRUE, str |-> raw]
    ELSE [isString |-> FALSE, obj |-> [src |-> raw.src, n |-> raw.n, type |-> raw.type]]

\* const msgStr = typeof message === 'string' ? message : JSON.stringify(message)
msgStr(message) ==
    IF message.isString THEN message.str ELSE JSONstringify(message.obj)

(* ---- session store (session.ts) ---- *)
\* createSession: the record stored under a fresh id
newSession(id, secret, metadata, t) ==
    [id |-> id, secret |-> secret, createdAt |-> t, expiresAt |-> t + PENDING_TIMEOUT,
     status |-> "pending", dapp |-> NoConn, mobile |-> NoConn,
     metadata |-> metadata, mobileLocked |-> FALSE]

isAtCapacity(ss) == Cardinality(DOMAIN ss) >= MAX_SESSIONS

\* sessions.set(id, rec)
MapSet(ss, id, rec) ==
    [x \in (DOMAIN ss) \cup {id} |-> IF x = id THEN rec ELSE ss[x]]

\* sessions.delete(id)
MapDelete(ss, id) == [x \in (DOMAIN ss) \ {id} |-> ss[x]]

\* generateSessionId that returns its first draw, used or not
generateSessionIdFirstDraw(ss, draws) == draws[1]

\* generateSessionId: do { id = random } while (sessions.has(id)), where
\* draws are the random ids in the order drawn; the first unused one
generateSessionId(ss, draws) ==
    draws[CHOOSE i \in 1..Len(draws) :
            /\ draws[i] \notin DOMAIN ss
            /\ \A j \in 1..(i - 1) : draws[j] \in DOMAIN ss]

\* draws is a run of that loop: it ends with its first unused id
loopRun(ss, draws) ==
    /\ draws[Len(draws)] \notin DOMAIN ss
    /\ \A j \in 1..(Len(draws) - 1) : draws[j] \in DOMAIN ss

\* createSession(metadata) at time t: the session it returns and the store
\* afterwards
createSession(ss, draws, secret, metadata, t) ==
    LET session == newSession(generateSessionId(ss, draws), secret, metadata, t)
    IN [session |-> session, sessions |-> MapSet(ss, session.id, session)]

verifySecret(ss, sessionId, secret) ==
    IF sessionId \notin DOMAIN ss THEN FALSE
    ELSE ss[sessionId].secret = secret

isMobileLocked(ss, sessionId) ==
    IF sessionId \notin DOMAIN ss THEN FALSE
    ELSE ss[sessionId].mobileLocked

\* registerConnection without the lock check: a second Mobile takes the slot
registerConnectionNoLock(ss, sessionId, role, ws, t) ==
    IF sessionId \notin DOMAIN ss THEN [ok |-> FALSE, sessions |-> ss]
    ELSE
      LET s0 == ss[sessionId]
          s1 == IF role = "dapp"
                THEN [s0 EXCEPT !.dapp = ws]
                ELSE [s0 EXCEPT !.mobile = ws, !.mobileLocked = TRUE]
          s2 == IF s1.dapp # NoConn /\ s1.mobile # NoConn
                THEN [s1 EXCEPT !.status = "connected",
                                !.expiresAt = t + CONNECTED_TIMEOUT]
                ELSE s1
      IN [ok |-> TRUE, sessions |-> [ss EXCEPT ![sessionId] = s2]]

\* registerConnection with the lock check after the assignment: the second
\* Mobile is turned away, but the slot already holds it
registerConnectionAssignFirst(ss, sessionId, role, ws, t) ==
    IF sessionId \notin DOMAIN ss THEN [ok |-> FALSE, sessions |-> ss]
    ELSE IF role # "dapp" /\ ss[sessionId].mobileLocked /\ ss[sessionId].mobile # NoConn
    THEN [ok |-> FALSE,
          sessions |-> [ss EXCEPT ![sessionId] = [@ EXCEPT !.mobile = ws]]]
    ELSE
      LET s0 == ss[sessionId]
          s1 == IF role = "dapp"
                THEN [s0 EXCEPT !.dapp = ws]
                ELSE [s0 EXCEPT !.mobile = ws, !.mobileLocked = TRUE]
          s2 == IF s1.dapp # NoConn /\ s1.mobile # NoConn
                THEN [s1 EXCEPT !.status = "connected",
                                !.expiresAt = t + CONNECTED_TIMEOUT]
                ELSE s1
      IN [ok |-> TRUE, sessions |-> [ss EXCEPT ![sessionId] = s2]]

\* registerConnection that guards the dapp slot the way it guards the mobile
\* slot: a DApp is turned away while another DApp is attached
registerConnectionDappLocked(ss, sessionId, role, ws, t) ==
    IF sessionId \notin DOMAIN ss THEN [ok |-> FALSE, sessions |-> ss]
    ELSE IF role # "dapp" /\ ss[sessionId].mobileLocked /\ ss[sessionId].mobile # NoConn
    THEN [ok |-> FALSE, sessions |-> ss]
    ELSE IF role = "dapp" /\ ss[sessionId].dapp # NoConn
    THEN [ok |-> FALSE, sessions |-> ss]
    ELSE
      LET s0 == ss[sessionId]
          s1 == IF role = "dapp"
                THEN [s0 EXCEPT !.dapp = ws]
                ELSE [s0 EXCEPT !.mobile = ws, !.mobileLocked = TRUE]
          s2 == IF s1.dapp # NoConn /\ s1.mobile # NoConn
                THEN [s1 EXCEPT !.status = "connected",
                                !.expiresAt = t + CONNECTED_TIMEOUT]
                ELSE s1
      IN [ok |-> TRUE, sessions |-> [ss EXCEPT ![sessionId] = s2]]

\* registerConnection that marks the session connected and leaves its expiry
registerConnectionKeepExpiry(ss, sessionId, role, ws, t) ==
    IF sessionId \notin DOMAIN ss THEN [ok |-> FALSE, sessions |-> ss]
    ELSE IF role # "dapp" /\ ss[sessionId].mobileLocked /\ ss[sessionId].mobile # NoConn
    THEN [ok |-> FALSE, sessions |-> ss]
    ELSE
      LET s0 == ss[sessionId]
          s1 == IF role = "dapp"
                THEN [s0 EXCEPT !.dapp = ws]
                ELSE [s0 EXCEPT !.mobile = ws, !.mobileLocked = TRUE]
          s2 == IF s1.dapp # NoConn /\ s1.mobile # NoConn
                THEN [s1 EXCEPT !.status = "connected"]
                ELSE s1
      IN [ok |-> TRUE, sessions |-> [ss EXCEPT ![sessionId] = s2]]

\* registerConnection that extends the expiry on every attachment
registerConnectionExtendAlways(ss, sessionId, role, ws, t) ==
    IF sessionId \notin DOMAIN ss THEN [ok |-> FALSE, sessions |-> ss]
    ELSE IF role # "dapp" /\ ss[sessionId].mobileLocked /\ ss[sessionId].mobile # NoConn
    THEN [ok |-> FALSE, sessions |-> ss]
    ELSE
      LET s0 == ss[sessionId]
          s1 == IF role = "dapp"
                THEN [s0 EXCEPT !.dapp = ws]
                ELSE [s0 EXCEPT !.mobile = ws, !.mobileLocked = TRUE]
          s2 == IF s1.dapp # NoConn /\ s1.mobile # NoConn
                THEN [s1 EXCEPT !.status = "connected",
                                !.expiresAt = t + CONNECTED_TIMEOUT]
                ELSE [s1 EXCEPT !.expiresAt = t + CONNECTED_TIMEOUT]
      IN [ok |-> TRUE, sessions |-> [ss EXCEPT ![sessionId] = s2]]

\* registerConnection that looks at the two slots only when a Mobile attaches
registerConnectionConnectOnMobile(ss, sessionId, role, ws, t) ==
    IF sessionId \notin DOMAIN ss THEN [ok |-> FALSE, sessions |-> ss]
    ELSE IF role # "dapp" /\ ss[sessionId].mobileLocked /\ ss[sessionId].mobile # NoConn
    THEN [ok |-> FALSE, sessions |-> ss]
    ELSE
      LET s0 == ss[sessionId]
          s1 == IF role = "dapp"
                THEN [s0 EXCEPT !.dapp = ws]
                ELSE [s0 EXCEPT !.mobile = ws, !.mobileLocked = TRUE]
          s2 == IF role # "dapp" /\ s1.dapp # NoConn /\ s1.mobile # NoConn
                THEN [s1 EXCEPT !.status = "connected",
                                !.expiresAt = t + CONNECTED_TIMEOUT]
                ELSE s1
      IN [ok |-> TRUE, sessions |-> [ss EXCEPT ![sessionId] = s2]]

\* registerConnection: ok is "returned a session", sessions the store afterwards
registerConnection(ss, sessionId, role, ws, t) ==
    IF sessionId \notin DOMAIN ss THEN [ok |-> FALSE, sessions |-> ss]
    ELSE IF role # "dapp" /\ ss[sessionId].mobileLocked /\ ss[sessionId].mobile # NoConn
    THEN [ok |-> FALSE, sessions |-> ss]
    ELSE
      LET s0 == ss[sessionId]
          s1 == IF role = "dapp"
                THEN [s0 EXCEPT !.dapp = ws]
                ELSE [s0 EXCEPT !.mobile = ws, !.mobileLocked = TRUE]
          s2 == IF s1.dapp # NoConn /\ s1.mobile # NoConn
                THEN [s1 EXCEPT !.status = "connected",
                                !.expiresAt = t + CONNECTED_TIMEOUT]
                ELSE s1
      IN [ok |-> TRUE, sessions |-> [ss EXCEPT ![sessionId] = s2]]

\* unregisterConnection that empties both slots
unregisterConnectionBothSlots(ss, sessionId, role) ==
    IF sessionId \notin DOMAIN ss THEN ss
    ELSE
      LET s0 == ss[sessionId]
          s1 == IF role = "dapp"
                THEN [s0 EXCEPT !.dapp = NoConn, !.mobile = NoConn]
                ELSE [s0 EXCEPT !.mobile = NoConn, !.dapp = NoConn, !.mobileLocked = FALSE]
      IN [ss EXCEPT ![sessionId] = [s1 EXCEPT !.status = "disconnected"]]

\* unregisterConnection that leaves the lock set
unregisterConnectionKeepLock(ss, sessionId, role) ==
    IF sessionId \notin DOMAIN ss THEN ss
    ELSE
      LET s0 == ss[sessionId]
          s1 == IF role = "dapp"
                THEN [s0 EXCEPT !.dapp = NoConn]
                ELSE [s0 EXCEPT !.mobile = NoConn]
      IN [ss EXCEPT ![sessionId] = [s1 EXCEPT !.status = "disconnected"]]

\* unregisterConnection that leaves the status as it was
unregisterConnectionKeepStatus(ss, sessionId, role) ==
    IF sessionId \notin DOMAIN ss THEN ss
    ELSE
      LET s0 == ss[sessionId]
          s1 == IF role = "dapp"
                THEN [s0 EXCEPT !.dapp = NoConn]
                ELSE [s0 EXCEPT !.mobile = NoConn, !.mobileLocked = FALSE]
      IN [ss EXCEPT ![sessionId] = s1]

\* unregisterConnection that puts the expiry back to the pending one
unregisterConnectionPendingExpiry(ss, sessionId, role) ==
    IF sessionId \notin DOMAIN ss THEN ss
    ELSE
      LET s0 == ss[sessionId]
          s1 == IF role = "dapp"
                THEN [s0 EXCEPT !.dapp = NoConn]
                ELSE [s0 EXCEPT !.mobile = NoConn, !.mobileLocked = FALSE]
      IN [ss EXCEPT ![sessionId] = [s1 EXCEPT !.status = "disconnected",
                                              !.expiresAt = s0.createdAt + PENDING_TIMEOUT]]

\* unregisterConnection
unregisterConnection(ss, sessionId, role) ==
    IF sessionId \notin DOMAIN ss THEN ss
    ELSE
      LET s0 == ss[sessionId]
          s1 == IF role = "dapp"
                THEN [s0 EXCEPT !.dapp = NoConn]
                ELSE [s0 EXCEPT !.mobile = NoConn, !.mobileLocked = FALSE]
      IN [ss EXCEPT ![sessionId] = [s1 EXCEPT !.status = "disconnected"]]

getPeer(ss, sessionId, myRole) ==
    IF sessionId \notin DOMAIN ss THEN NoConn
    ELSE IF myRole = "dapp" THEN ss[sessionId].mobile ELSE ss[sessionId].dapp

\* session.terminated as the source reads it: a record createSession built has
\* no such field, and a missing field reads as undefined, which is falsy
isTerminated(s) == IF "terminated" \in DOMAIN s THEN s.terminated ELSE FALSE

\* terminateSession(id): sets terminated and status; the connections it closes
\* are terminatedConns
terminateSession(ss, sessionId) ==
    IF sessionId \notin DOMAIN ss THEN ss
    ELSE
      LET s0 == ss[sessionId]
          s1 == [f \in (DOMAIN s0) \cup {"terminated"} |->
                   IF f = "terminated" THEN TRUE
                   ELSE IF f = "status" THEN "disconnected"
                   ELSE s0[f]]
      IN [x \in DOMAIN ss |-> IF x = sessionId THEN s1 ELSE ss[x]]

\* the connections terminateSession(id) closes
terminatedConns(ss, sessionId) ==
    IF sessionId \notin DOMAIN ss THEN {}
    ELSE {ss[sessionId].dapp, ss[sessionId].mobile} \ {NoConn}

\* the sweep that also takes the sessions whose expiry is this very moment
expiredIdsAtDeadline(ss, t) == {id \in DOMAIN ss : t >= ss[id].expiresAt}

\* the sessions cleanupExpiredSessions removes at time t
expiredIds(ss, t) == {id \in DOMAIN ss : t > ss[id].expiresAt}

\* the connections cleanupExpiredSessions closes at time t
expiredConns(ss, t) ==
    {c \in Conns : \E id \in expiredIds(ss, t) :
                      c = ss[id].dapp \/ c = ss[id].mobile}

(* ---- rate limiter (class RateLimiter) ---- *)
\* check(key) that compares the count with > instead of >=
checkOffByOne(en, cfg, key, t) ==
    IF key \notin DOMAIN en \/ t >= en[key].resetAt
    THEN [ok |-> TRUE,
          entries |-> MapSet(en, key, [count |-> 1, resetAt |-> t + cfg.windowMs])]
    ELSE IF en[key].count > cfg.maxRequests
    THEN [ok |-> FALSE, entries |-> en]
    ELSE [ok |-> TRUE, entries |-> [en EXCEPT ![key].count = @ + 1]]

\* check(key) that starts a new window only after resetAt has passed
checkStrictlyPast(en, cfg, key, t) ==
    IF key \notin DOMAIN en \/ t > en[key].resetAt
    THEN [ok |-> TRUE,
          entries |-> MapSet(en, key, [count |-> 1, resetAt |-> t + cfg.windowMs])]
    ELSE IF en[key].count >= cfg.maxRequests
    THEN [ok |-> FALSE, entries |-> en]
    ELSE [ok |-> TRUE, entries |-> [en EXCEPT ![key].count = @ + 1]]

\* check(key) at time t: ok is what it returns, entries the map afterwards
check(en, cfg, key, t) ==
    IF key \notin DOMAIN en \/ t >= en[key].resetAt
    THEN [ok |-> TRUE,
          entries |-> MapSet(en, key, [count |-> 1, resetAt |-> t + cfg.windowMs])]
    ELSE IF en[key].count >= cfg.maxRequests
    THEN [ok |-> FALSE, entries |-> en]
    ELSE [ok |-> TRUE, entries |-> [en EXCEPT ![key].count = @ + 1]]

\* getInfo(key) that reports the stored counters whether or not the window is over
getInfoIgnoreExpiry(en, cfg, key, t) ==
    IF key \notin DOMAIN en
    THEN [remaining |-> cfg.maxRequests, resetAt |-> t + cfg.windowMs]
    ELSE [remaining |-> IF cfg.maxRequests - en[key].count > 0
                        THEN cfg.maxRequests - en[key].count ELSE 0,
          resetAt |-> en[key].resetAt]

\* getInfo(key) at time t: what it returns; it writes nothing
getInfo(en, cfg, key, t) ==
    IF key \notin DOMAIN en \/ t >= en[key].resetAt
    THEN [remaining |-> cfg.maxRequests, resetAt |-> t + cfg.windowMs]
    ELSE [remaining |-> IF cfg.maxRequests - en[key].count > 0
                        THEN cfg.maxRequests - en[key].count ELSE 0,
          resetAt |-> en[key].resetAt]

\* cleanup(): the map without the entries whose window is over
cleanup(en, t) == [k \in {x \in DOMAIN en : ~(t >= en[x].resetAt)} |-> en[k]]

(* ---- POST /session ---- *)
\* the admission that asks the rate limiter before it looks at the capacity
postAdmitLimitFirst(ss, en, cfg, ip, t) ==
    LET r == check(en, cfg, ip, t)
    IN IF isAtCapacity(ss) THEN [status |-> 503, entries |-> r.entries]
       ELSE IF ~r.ok THEN [status |-> 429, entries |-> r.entries]
       ELSE [status |-> 0, entries |-> r.entries]

\* the handler up to await request.json(): the status it answers with (0 when
\* it goes on to read the body) and the limiter's map afterwards
postAdmit(ss, en, cfg, ip, t) ==
    IF isAtCapacity(ss) THEN [status |-> 503, entries |-> en]
    ELSE LET r == check(en, cfg, ip, t)
         IN IF ~r.ok THEN [status |-> 429, entries |-> r.entries]
            ELSE [status |-> 0, entries |-> r.entries]

\* the 429 response of POST /session: getInfo reads the clock at t2, the
\* Retry-After header reads it at t3; Math.ceil(x / 1000) is -((-x) \div 1000)
rateLimitedResponse(en, cfg, ip, t2, t3) ==
    LET info == getInfo(en, cfg, ip, t2)
    IN [status |-> 429,
        retryAfter |-> -((-(info.resetAt - t3)) \div 1000),
        remaining |-> info.remaining]

(* ---- GET /session/:id ---- *)
\* the handler that answers with the session record itself
getSessionInfoWholeRecord(ss, id) ==
    IF id \notin DOMAIN ss THEN [status |-> 404]
    ELSE IF isTerminated(ss[id]) THEN [status |-> 410]
    ELSE [status |-> 200, body |-> ss[id]]

\* what the handler returns: a status and, for 200, the object it builds
getSessionInfo(ss, id) ==
    IF id \notin DOMAIN ss THEN [status |-> 404]
    ELSE IF isTerminated(ss[id]) THEN [status |-> 410]
    ELSE [status |-> 200,
          body |-> [id |-> ss[id].id, status |-> ss[id].status,
                    metadata |-> ss[id].metadata, expiresAt |-> ss[id].expiresAt]]

\* the JSON text of a returned object, as its set of properties:
\* JSON.stringify leaves out a property whose value is undefined
responseJson(obj) ==
    [f \in {g \in DOMAIN obj : g = "metadata" => obj[g] # undefined} |-> obj[f]]

\* the response of GET /session/:id as the client receives it
getSessionResponse(ss, id) ==
    LET r == getSessionInfo(ss, id)
    IN IF r.status = 200 THEN [status |-> 200, body |-> responseJson(r.body)]
       ELSE r

(* ---- WebSocket surface (the /ws route) ---- *)
\* ws.send that puts the frame ahead of the frames already sent
wsSendAhead(ib, cs, ws, frame) ==
    IF cs[ws] \in {"closing", "closed"} THEN ib
    ELSE [ib EXCEPT ![ws] = <<frame>> \o @]

\* ws.send(frame): appends to what the client of ws receives; a socket that
\* is closing or closed takes no more frames
wsSend(ib, cs, ws, frame) ==
    IF cs[ws] \in {"closing", "closed"} THEN ib
    ELSE [ib EXCEPT ![ws] = Append(@, frame)]

\* beforeHandle that verifies the secret only when k is given
beforeHandleKeyOptional(ss, q) ==
    IF q.session = Missing \/ q.role = Missing THEN 400
    ELSE IF q.role # "dapp" /\ q.role # "mobile" THEN 400
    ELSE IF q.session \notin DOMAIN ss THEN 404
    ELSE IF q.role = "mobile" /\ q.k # Missing /\ ~verifySecret(ss, q.session, q.k) THEN 403
    ELSE IF q.role = "mobile" /\ isMobileLocked(ss, q.session) THEN 409
    ELSE 101

\* beforeHandle that looks at the lock before it verifies the secret
beforeHandleLockFirst(ss, q) ==
    IF q.session = Missing \/ q.role = Missing THEN 400
    ELSE IF q.role # "dapp" /\ q.role # "mobile" THEN 400
    ELSE IF q.session \notin DOMAIN ss THEN 404
    ELSE IF q.role = "mobile" /\ isMobileLocked(ss, q.session) THEN 409
    ELSE IF q.role = "mobile" /\ (q.k = Missing \/ ~verifySecret(ss, q.session, q.k)) THEN 403
    ELSE 101

\* beforeHandle: the status of the handshake response, 101 when it upgrades
beforeHandle(ss, q) ==
    IF q.session = Missing \/ q.role = Missing THEN 400
    ELSE IF q.role # "dapp" /\ q.role # "mobile" THEN 400
    ELSE IF q.session \notin DOMAIN ss THEN 404
    ELSE IF q.role = "mobile" /\ (q.k = Missing \/ ~verifySecret(ss, q.session, q.k)) THEN 403
    ELSE IF q.role = "mobile" /\ isMobileLocked(ss, q.session) THEN 409
    ELSE 101

\* open(ws) that sends ready before it looks at the result of the registration
openHandlerReadyEarly(ss, ib, cs, ws, sessionId, role, t) ==
    LET existingPeer == getPeer(ss, sessionId, role)
        r == registerConnection(ss, sessionId, role, ws, t)
        ib1 == wsSend(ib, cs, ws, ReadyFrame)
        ib2 == IF role = "dapp" /\ existingPeer # NoConn
               THEN wsSend(ib1, cs, existingPeer, DappReconnectedFrame)
               ELSE ib1
    IN IF ~r.ok THEN [ok |-> FALSE, sessions |-> r.sessions, inbox |-> ib1]
       ELSE [ok |-> TRUE, sessions |-> r.sessions, inbox |-> ib2]

\* open(ws) that notifies the peer it found, whatever the role of ws
openHandlerNotifyAny(ss, ib, cs, ws, sessionId, role, t) ==
    LET existingPeer == getPeer(ss, sessionId, role)
        r == registerConnection(ss, sessionId, role, ws, t)
        ib1 == wsSend(ib, cs, ws, ReadyFrame)
        ib2 == IF existingPeer # NoConn
               THEN wsSend(ib1, cs, existingPeer, DappReconnectedFrame)
               ELSE ib1
    IN IF ~r.ok THEN [ok |-> FALSE, sessions |-> r.sessions, inbox |-> ib]
       ELSE [ok |-> TRUE, sessions |-> r.sessions, inbox |-> ib2]

\* open(ws): ok is "registered", sessions and inbox the state afterwards;
\* when ok is FALSE the handler has called ws.close(1008, ...)
openHandler(ss, ib, cs, ws, sessionId, role, t) ==
    LET existingPeer == getPeer(ss, sessionId, role)
        r == registerConnection(ss, sessionId, role, ws, t)
        ib1 == wsSend(ib, cs, ws, ReadyFrame)
        ib2 == IF role = "dapp" /\ existingPeer # NoConn
               THEN wsSend(ib1, cs, existingPeer, DappReconnectedFrame)
               ELSE ib1
    IN IF ~r.ok THEN [ok |-> FALSE, sessions |-> r.sessions, inbox |-> ib]
       ELSE [ok |-> TRUE, sessions |-> r.sessions, inbox |-> ib2]

\* message(ws, message) that hands the frame back to the sender when the peer
\* is absent
messageHandlerEcho(ss, ib, cs, ws, sessionId, role, message) ==
    LET peer == getPeer(ss, sessionId, role)
    IN IF peer = NoConn THEN wsSend(ib, cs, ws, msgStr(message))
       ELSE wsSend(ib, cs, peer, msgStr(message))

\* message(ws, message): the inboxes afterwards
messageHandler(ss, ib, cs, ws, sessionId, role, message) ==
    LET peer == getPeer(ss, sessionId, role)
    IN IF peer = NoConn THEN wsSend(ib, cs, ws, ErrorFrame)
       ELSE wsSend(ib, cs, peer, msgStr(message))

\* close(ws): the store and the inboxes afterwards
closeHandler(ss, ib, cs, sessionId, role) ==
    LET ss1 == unregisterConnection(ss, sessionId, role)
        peer == getPeer(ss1, sessionId, IF role = "dapp" THEN "mobile" ELSE "dapp")
    IN [sessions |-> ss1,
        inbox |-> IF peer # NoConn THEN wsSend(ib, cs, peer, DisconnectFrame) ELSE ib]

(* ---- helpers of the history variables ---- *)
\* the slot of the given role in a session, NoConn for an unknown session
slotOf(ss, sessionId, role) ==
    IF sessionId \notin DOMAIN ss THEN NoConn
    ELSE IF role = "dapp" THEN ss[sessionId].dapp ELSE ss[sessionId].mobile

otherRole(role) == IF role = "dapp" THEN "mobile" ELSE "dapp"

NoReg == [result |-> "none", found |-> FALSE, holder |-> NoConn,
          existingPeer |-> NoConn, notifiedAt |-> 0]
NoClose == [code |-> 0, reason |-> ""]
NoPost == [ip |-> Missing, status |-> 0, seen |-> {}]
NoProbe == [q |-> [session |-> Missing, role |-> Missing, k |-> Missing], status |-> 0,
            locked |-> FALSE]

\* the WebSockets the provider can create; this.ws = null is NoSocket
Socks == 1..MaxHandles
NoSocket == 0
\* a socket not yet created; timeout is "the 10 s timer of the connectWebSocket
\* call that created it is pending"
NoSock == [state |-> "unused", code |-> 0, timeout |-> FALSE]
\* the fields of a new RemoteProvider; reconnectTimer is "the timer held in
\* _reconnectTimer is pending", strayTimers the number of pending reconnect
\* timers the field no longer holds
NoProvider == [ws |-> NoSocket, connected |-> FALSE, accounts |-> << >>,
               userInitiatedDisconnect |-> FALSE,
               reconnectAttempts |-> 0, reconnectTimer |-> FALSE, strayTimers |-> 0]

\* bothAt after registerConnection(sessionId, ..) at time t gave ok and left
\* the store ss1
bothAfter(ba, ss1, sessionId, ok, t) ==
    IF ok /\ ss1[sessionId].dapp # NoConn /\ ss1[sessionId].mobile # NoConn
    THEN MapSet(ba, sessionId, t)
    ELSE ba

\* bothAt once only the sessions ids are left in the store
bothKept(ba, ids) == [id \in (DOMAIN ba) \cap ids |-> ba[id]]

(* ---- initial state ---- *)
Init ==
    /\ sessions = << >>
    /\ now = 0
    /\ ticks = 0
    /\ cstate = [c \in Conns |-> "new"]
    /\ httpStatus = [c \in Conns |-> 0]
    /\ csid = [c \in Conns |-> Missing]
    /\ crole = [c \in Conns |-> Missing]
    /\ inbox = [c \in Conns |-> << >>]
    /\ closeInfo = [c \in Conns |-> NoClose]
    /\ sent = [c \in Conns |-> << >>]
    /\ nsent = 0
    /\ reg = [c \in Conns |-> NoReg]
    /\ entries = << >>
    /\ config = sessionRateLimiterConfig
    /\ calls = [k \in ClientIPs |-> << >>]
    /\ pending = 0
    /\ posts = 0
    /\ postResp = NoPost
    /\ probe = NoProbe
    /\ bothAt = << >>
    /\ provider = NoProvider
    /\ socks = [s \in Socks |-> NoSock]
    /\ emitted = << >>
    /\ rpc = [requestId |-> 0, pendingRequests |-> {}, timers |-> << >>,
              settled |-> << >>]

(* ---- actions ---- *)
\* the clock advances by d
Tick(d) ==
    /\ ticks < MaxTicks
    /\ now' = now + d
    /\ ticks' = ticks + 1
    /\ UNCHANGED <<httpVars, sdkVars, bothAt, sessions, cstate, httpStatus, csid, crole, inbox, closeInfo, sent, nsent, reg>>

\* createSession(), on behalf of an admitted POST /session; id is the id
\* generateSessionId settles on, secret what generateSecret draws
CreateSession(id, secret) ==
    /\ ~isAtCapacity(sessions)
    /\ id \notin DOMAIN sessions
    /\ sessions' = MapSet(sessions, id, newSession(id, secret, undefined, now))
    /\ UNCHANGED <<httpVars, sdkVars, bothAt, now, ticks, cstate, httpStatus, csid, crole, inbox, closeInfo, sent, nsent, reg>>

\* the handshake that, when it answers 409, detaches the Mobile that holds the
\* lock and tells the DApp
HandshakeEvict(c, q) ==
    /\ cstate[c] = "new"
    /\ LET status == beforeHandle(sessions, q)
       IN /\ httpStatus' = [httpStatus EXCEPT ![c] = status]
          /\ IF status = 101
             THEN /\ cstate' = [cstate EXCEPT ![c] = "upgraded"]
                  /\ csid' = [csid EXCEPT ![c] = q.session]
                  /\ crole' = [crole EXCEPT ![c] = q.role]
             ELSE /\ cstate' = [cstate EXCEPT ![c] = "refused"]
                  /\ UNCHANGED <<csid, crole>>
    /\ IF beforeHandle(sessions, q) = 409
       THEN LET r == closeHandler(sessions, inbox, cstate, q.session, "mobile")
            IN sessions' = r.sessions /\ inbox' = r.inbox
       ELSE UNCHANGED <<sessions, inbox>>
    /\ UNCHANGED <<httpVars, sdkVars, bothAt, now, ticks, closeInfo, sent, nsent, reg>>

\* GET /ws?session=..&role=..&k=..: beforeHandle, then the upgrade
Handshake(c, q) ==
    /\ cstate[c] = "new"
    /\ LET status == beforeHandle(sessions, q)
       IN /\ httpStatus' = [httpStatus EXCEPT ![c] = status]
          /\ IF status = 101
             THEN /\ cstate' = [cstate EXCEPT ![c] = "upgraded"]
                  /\ csid' = [csid EXCEPT ![c] = q.session]
                  /\ crole' = [crole EXCEPT ![c] = q.role]
             ELSE /\ cstate' = [cstate EXCEPT ![c] = "refused"]
                  /\ UNCHANGED <<csid, crole>>
    /\ UNCHANGED <<httpVars, sdkVars, bothAt, sessions, now, ticks, inbox, closeInfo, sent, nsent, reg>>

\* the open handler of an upgraded connection
Open(c) ==
    /\ cstate[c] = "upgraded"
    /\ LET r == openHandler(sessions, inbox, cstate, c, csid[c], crole[c], now)
           peer == getPeer(sessions, csid[c], crole[c])
       IN /\ sessions' = r.sessions
          /\ inbox' = r.inbox
          /\ cstate' = [cstate EXCEPT ![c] = IF r.ok THEN "open" ELSE "closing"]
          /\ closeInfo' = IF r.ok THEN closeInfo
                          ELSE [closeInfo EXCEPT ![c] =
                                  [code |-> 1008,
                                   reason |-> "Session not found or already locked"]]
          /\ reg' = [reg EXCEPT ![c] =
                       [result |-> IF r.ok THEN "ok" ELSE "rejected",
                        found |-> csid[c] \in DOMAIN sessions,
                        holder |-> slotOf(sessions, csid[c], crole[c]),
                        existingPeer |-> peer,
                        notifiedAt |-> IF peer # NoConn /\ Len(r.inbox[peer]) > Len(inbox[peer])
                                       THEN Len(r.inbox[peer]) ELSE 0]]
          /\ bothAt' = bothAfter(bothAt, r.sessions, csid[c], r.ok, now)
    /\ UNCHANGED <<httpVars, sdkVars, now, ticks, httpStatus, csid, crole, sent, nsent>>

\* the message handler: the client of c sends one frame, written in form f
Message(c, f) ==
    /\ cstate[c] = "open"
    /\ nsent < MaxSend
    /\ LET raw == ClientFrame(c, nsent + 1, f)
       IN /\ sent' = [sent EXCEPT ![c] =
                        Append(@, [frame |-> raw,
                                   peer |-> slotOf(sessions, csid[c], otherRole(crole[c]))])]
          /\ inbox' = messageHandler(sessions, inbox, cstate, c, csid[c], crole[c],
                                     parseMessage(raw))
    /\ nsent' = nsent + 1
    /\ UNCHANGED <<httpVars, sdkVars, bothAt, sessions, now, ticks, cstate, httpStatus, csid, crole, closeInfo, reg>>

\* the close handler: the client went away, or a close issued by the relay
\* has completed
Close(c) ==
    /\ cstate[c] \in {"open", "closing"}
    /\ LET cs1 == [cstate EXCEPT ![c] = "closed"]
           r == closeHandler(sessions, inbox, cs1, csid[c], crole[c])
       IN /\ cstate' = cs1
          /\ sessions' = r.sessions
          /\ inbox' = r.inbox
    /\ UNCHANGED <<httpVars, sdkVars, bothAt, now, ticks, httpStatus, csid, crole, closeInfo, sent, nsent, reg>>

\* cleanupExpiredSessions(), run by the interval timer
CleanupExpiredSessions ==
    /\ sessions' = [id \in (DOMAIN sessions) \ expiredIds(sessions, now) |-> sessions[id]]
    /\ cstate' = [c \in Conns |->
                    IF c \in expiredConns(sessions, now) /\ cstate[c] = "open"
                    THEN "closing" ELSE cstate[c]]
    /\ closeInfo' = [c \in Conns |->
                    IF c \in expiredConns(sessions, now) /\ cstate[c] = "open"
                    THEN [code |-> 1000, reason |-> "Session expired"]
                    ELSE closeInfo[c]]
    /\ bothAt' = bothKept(bothAt, (DOMAIN sessions) \ expiredIds(sessions, now))
    /\ UNCHANGED <<httpVars, sdkVars, now, ticks, httpStatus, csid, crole, inbox, sent, nsent, reg>>

Queries == [session : QuerySessions, role : QueryRoles, k : QueryKeys]

(* ---- specifications ---- *)
\* The relay at work on one session: connections come and go and send frames
\* written in every form; the clock stands still, so nothing expires.
RelayId == "A7X3"
RelaySecret == "SECRETAAAAAAAAAA"

NextRelay ==
    \/ CreateSession(RelayId, RelaySecret)
    \/ \E c \in Conns : \E q \in Queries : Handshake(c, q)
    \/ \E c \in Conns : Open(c)
    \/ \E c \in Conns : \E f \in Forms : Message(c, f)
    \/ \E c \in Conns : Close(c)

SpecRelay == Init /\ [][NextRelay]_vars

\* The life cycle of sessions and connections: sessions are created, expire
\* and are swept, ids are reused, connections come and go; clients send no
\* frames.
NextLifecycle ==
    \/ \E d \in TickSteps : Tick(d)
    \/ \E id \in SessionIds : \E secret \in Secrets : CreateSession(id, secret)
    \/ \E c \in Conns : \E q \in Queries : Handshake(c, q)
    \/ \E c \in Conns : Open(c)
    \/ \E c \in Conns : Close(c)
    \/ CleanupExpiredSessions

SpecLifecycle == Init /\ [][NextLifecycle]_vars

\* the session store called directly, as its unit tests do: any call, in any
\* order, with any connection handle
StoreCreate(id, secret) ==
    /\ id \notin DOMAIN sessions
    /\ sessions' = MapSet(sessions, id, newSession(id, secret, undefined, now))
    /\ UNCHANGED <<httpVars, sdkVars, bothAt, now, ticks, cstate, httpStatus, csid, crole, inbox, closeInfo, sent, nsent, reg>>

StoreRegister(id, role, ws) ==
    /\ LET r == registerConnection(sessions, id, role, ws, now)
       IN /\ sessions' = r.sessions
          /\ bothAt' = bothAfter(bothAt, r.sessions, id, r.ok, now)
    /\ UNCHANGED <<httpVars, sdkVars, now, ticks, cstate, httpStatus, csid, crole, inbox, closeInfo, sent, nsent, reg>>

StoreUnregister(id, role) ==
    /\ sessions' = unregisterConnection(sessions, id, role)
    /\ UNCHANGED <<httpVars, sdkVars, bothAt, now, ticks, cstate, httpStatus, csid, crole, inbox, closeInfo, sent, nsent, reg>>

StoreDelete(id) ==
    /\ sessions' = MapDelete(sessions, id)
    /\ bothAt' = bothKept(bothAt, (DOMAIN sessions) \ {id})
    /\ UNCHANGED <<httpVars, sdkVars, now, ticks, cstate, httpStatus, csid, crole, inbox, closeInfo, sent, nsent, reg>>

StoreTickSteps == {1, PENDING_TIMEOUT, CONNECTED_TIMEOUT}

NextStore ==
    \/ \E d \in StoreTickSteps : Tick(d)
    \/ \E id \in SessionIds : \E secret \in Secrets : StoreCreate(id, secret)
    \/ \E id \in SessionIds : \E role \in Roles : \E ws \in Conns : StoreRegister(id, role, ws)
    \/ \E id \in SessionIds : \E role \in Roles : StoreUnregister(id, role)
    \/ \E id \in SessionIds : StoreDelete(id)
    \/ CleanupExpiredSessions

SpecStore == Init /\ [][NextStore]_vars

\* terminateSession(id), called on the store directly; code is the close code
\* it passes to the sockets it closes
TerminalCodes == {1000, 1008}

StoreTerminate(id, code) ==
    /\ sessions' = terminateSession(sessions, id)
    /\ cstate' = [c \in Conns |->
                    IF c \in terminatedConns(sessions, id) /\ cstate[c] \notin {"closing", "closed"}
                    THEN "closing" ELSE cstate[c]]
    /\ closeInfo' = [c \in Conns |->
                    IF c \in terminatedConns(sessions, id) /\ cstate[c] \notin {"closing", "closed"}
                    THEN [code |-> code, reason |-> "Session terminated"]
                    ELSE closeInfo[c]]
    /\ UNCHANGED <<httpVars, sdkVars, bothAt, now, ticks, httpStatus, csid, crole, inbox, sent, nsent, reg>>

\* the store with terminateSession: sessions are created, connections
\* registered and unregistered, sessions terminated, in any order
NextTerminate ==
    \/ \E id \in SessionIds : StoreCreate(id, RelaySecret)
    \/ \E id \in SessionIds : \E role \in Roles : \E ws \in Conns : StoreRegister(id, role, ws)
    \/ \E id \in SessionIds : \E role \in Roles : StoreUnregister(id, role)
    \/ \E id \in SessionIds : \E code \in TerminalCodes : StoreTerminate(id, code)

SpecTerminate == Init /\ [][NextTerminate]_vars

\* POST /session, first half: capacity check, rate-limit check, and either the
\* 503 or 429 response or the suspension at await request.json()
PostBegin(ip) ==
    /\ posts < MaxPosts
    /\ LET r == postAdmit(sessions, entries, config, ip, now)
       IN /\ entries' = r.entries
          /\ pending' = IF r.status = 0 THEN pending + 1 ELSE pending
          /\ postResp' = [ip |-> ip, status |-> r.status,
                          seen |-> postResp.seen \cup ({r.status} \ {0})]
    /\ posts' = posts + 1
    /\ UNCHANGED <<sessions, now, ticks, cstate, httpStatus, csid, crole, inbox,
                   closeInfo, sent, nsent, reg, config, calls, probe, bothAt, sdkVars>>

\* POST /session, second half: the body has arrived, createSession() runs and
\* the handler answers with the new session
PostFinish(id, secret) ==
    /\ pending > 0
    /\ id \notin DOMAIN sessions
    /\ sessions' = MapSet(sessions, id, newSession(id, secret, undefined, now))
    /\ pending' = pending - 1
    /\ UNCHANGED <<now, ticks, cstate, httpStatus, csid, crole, inbox, closeInfo,
                   sent, nsent, reg, entries, config, calls, posts, postResp, probe,
                   bothAt, sdkVars>>

\* the interval timer of the rate limiter
LimiterCleanup ==
    /\ entries' = cleanup(entries, now)
    /\ UNCHANGED <<sessions, now, ticks, cstate, httpStatus, csid, crole, inbox,
                   closeInfo, sent, nsent, reg, config, calls, pending, posts,
                   postResp, probe, bothAt, sdkVars>>

\* the ids generateSessionId can return to the POST handlers: more than
\* MAX_SESSIONS of them
PostIds == SessionIds \cup {"Q4T8"}
\* the clock against the rate window and the pending expiry
PostTickSteps == {1, sessionRateLimiterConfig.windowMs, PENDING_TIMEOUT + 1}

\* POST /session handlers running concurrently, with the two interval timers
NextPost ==
    \/ \E d \in PostTickSteps : Tick(d)
    \/ \E ip \in ClientIPs : PostBegin(ip)
    \/ \E id \in PostIds : PostFinish(id, RelaySecret)
    \/ CleanupExpiredSessions
    \/ LimiterCleanup

SpecPost == Init /\ [][NextPost]_vars

\* POST /session up to await request.json(), with the clock as the handler
\* reads it: check reads it at now, getInfo d1 ms later and the Retry-After
\* header d2 ms after that; the 429 response is noted with its headers, with
\* the resetAt of the window check found and with the time of the last read
PostAdmission(ip, d1, d2) ==
    /\ posts < MaxPosts
    /\ LET r == postAdmit(sessions, entries, config, ip, now)
           t2 == now + d1
           t3 == t2 + d2
           resp == rateLimitedResponse(r.entries, config, ip, t2, t3)
       IN /\ entries' = r.entries
          /\ pending' = IF r.status = 0 THEN pending + 1 ELSE pending
          /\ IF r.status = 429
             THEN /\ now' = t3
                  /\ postResp' = [ip |-> ip, status |-> 429,
                                  seen |-> postResp.seen \cup {429},
                                  retryAfter |-> resp.retryAfter,
                                  remaining |-> resp.remaining,
                                  window |-> entries[ip].resetAt,
                                  at |-> t3]
             ELSE /\ d1 = 0 /\ d2 = 0
                  /\ now' = now
                  /\ postResp' = [ip |-> ip, status |-> r.status,
                                  seen |-> postResp.seen \cup ({r.status} \ {0})]
    /\ posts' = posts + 1
    /\ UNCHANGED <<sessions, ticks, cstate, httpStatus, csid, crole, inbox,
                   closeInfo, sent, nsent, reg, config, calls, probe, bothAt, sdkVars>>

\* the clock against the rate window: early in it, a second and more before
\* its end, less than a second before it, and its last millisecond
RetryTickSteps == {1, 58999, 59001, 59999}

\* POST /session requests against the rate limiter and the clock
NextRetry ==
    \/ \E d \in RetryTickSteps : Tick(d)
    \/ \E ip \in ClientIPs : \E d1, d2 \in 0..MaxReadDelay : PostAdmission(ip, d1, d2)
    \/ \E id \in SessionIds : PostFinish(id, RelaySecret)
    \/ LimiterCleanup

SpecRetry == Init /\ [][NextRetry]_vars

\* a rate limiter of any small configuration, as its unit tests build it
LimiterConfigs == [windowMs : {2, 3}, maxRequests : {1, 2}]

InitLimiter ==
    /\ sessions = << >>
    /\ now = 0
    /\ ticks = 0
    /\ cstate = [c \in Conns |-> "new"]
    /\ httpStatus = [c \in Conns |-> 0]
    /\ csid = [c \in Conns |-> Missing]
    /\ crole = [c \in Conns |-> Missing]
    /\ inbox = [c \in Conns |-> << >>]
    /\ closeInfo = [c \in Conns |-> NoClose]
    /\ sent = [c \in Conns |-> << >>]
    /\ nsent = 0
    /\ reg = [c \in Conns |-> NoReg]
    /\ entries = << >>
    /\ config \in LimiterConfigs
    /\ calls = [k \in ClientIPs |-> << >>]
    /\ pending = 0
    /\ posts = 0
    /\ postResp = NoPost
    /\ probe = NoProbe
    /\ bothAt = << >>
    /\ provider = NoProvider
    /\ socks = [s \in Socks |-> NoSock]
    /\ emitted = << >>
    /\ rpc = [requestId |-> 0, pendingRequests |-> {}, timers |-> << >>,
              settled |-> << >>]

\* the clock of the limiter advances by one millisecond
LimiterTick ==
    /\ now < MaxClock
    /\ now' = now + 1
    /\ UNCHANGED <<sessions, ticks, cstate, httpStatus, csid, crole, inbox, closeInfo,
                   sent, nsent, reg, httpVars, bothAt, sdkVars>>

\* the number of check calls made so far
RECURSIVE callsOf(_)
callsOf(keys) ==
    IF keys = {} THEN 0
    ELSE LET k == CHOOSE x \in keys : TRUE
         IN Len(calls[k]) + callsOf(keys \ {k})

ncalls == callsOf(ClientIPs)

\* limiter.check(key); the call is noted with its time, its result and
\* whether it started a window (the entry of key is new or has a new resetAt)
LimiterCheck(key) ==
    /\ ncalls < MaxCalls
    /\ LET r == check(entries, config, key, now)
       IN /\ entries' = r.entries
          /\ calls' = [calls EXCEPT ![key] =
                         Append(@, [t |-> now, ok |-> r.ok,
                                    opened |-> \/ key \notin DOMAIN entries
                                               \/ r.entries[key].resetAt # entries[key].resetAt])]
    /\ UNCHANGED <<sessions, now, ticks, cstate, httpStatus, csid, crole, inbox,
                   closeInfo, sent, nsent, reg, config, pending, posts, postResp, probe,
                   bothAt, sdkVars>>

NextLimiter ==
    \/ LimiterTick
    \/ \E key \in ClientIPs : LimiterCheck(key)
    \/ LimiterCleanup

SpecLimiter == InitLimiter /\ [][NextLimiter]_vars

\* a handshake request q answered by beforeHandle against the store as it
\* is; noted with the answer and with whether the session it names was
\* mobile-locked
Probe(q) ==
    /\ probe' = [q |-> q, status |-> beforeHandle(sessions, q),
                 locked |-> isMobileLocked(sessions, q.session)]
    /\ UNCHANGED <<sessions, now, ticks, cstate, httpStatus, csid, crole, inbox,
                   closeInfo, sent, nsent, reg, entries, config, calls, pending,
                   posts, postResp, bothAt, sdkVars>>

\* handshake requests of every shape against every store the store's calls
\* can build
NextHandshake ==
    \/ \E id \in SessionIds : StoreCreate(id, RelaySecret)
    \/ \E id \in SessionIds : \E role \in Roles : \E ws \in Conns : StoreRegister(id, role, ws)
    \/ \E id \in SessionIds : \E role \in Roles : StoreUnregister(id, role)
    \/ \E q \in Queries : Probe(q)

SpecHandshake == Init /\ [][NextHandshake]_vars

\* the clock against the two expiry times, to the millisecond
ExpiryTickSteps == {PENDING_TIMEOUT, PENDING_TIMEOUT + 1,
                    CONNECTED_TIMEOUT, CONNECTED_TIMEOUT + 1}
\* the handshake requests that carry a session id, a role and the secret
ExpiryQueries == {q \in Queries : q.session # Missing /\ q.role \in Roles
                                    /\ q.k = RelaySecret}

\* sessions and connections against the clock: sessions are created, attached
\* to, reach their expiry to the millisecond and are swept
NextExpiry ==
    \/ \E d \in ExpiryTickSteps : Tick(d)
    \/ \E id \in SessionIds : CreateSession(id, RelaySecret)
    \/ \E c \in Conns : \E q \in ExpiryQueries : Handshake(c, q)
    \/ \E c \in Conns : Open(c)
    \/ \E c \in Conns : Close(c)
    \/ CleanupExpiredSessions

SpecExpiry == Init /\ [][NextExpiry]_vars

\* the random ids of one generateSessionId call, in the order drawn
Draws == UNION {[1..n -> SessionIds] : n \in 1..MaxDraws}

\* createSession(metadata), called on the store directly
StoreCreateSession(draws, secret, metadata) ==
    /\ loopRun(sessions, draws)
    /\ sessions' = createSession(sessions, draws, secret, metadata, now).sessions
    /\ UNCHANGED <<httpVars, sdkVars, bothAt, now, ticks, cstate, httpStatus, csid, crole,
                   inbox, closeInfo, sent, nsent, reg>>

CreateTickSteps == {1, PENDING_TIMEOUT + 1}

\* sessions created with any draws, secret and metadata, attached to, deleted
\* and swept
NextCreate ==
    \/ \E d \in CreateTickSteps : Tick(d)
    \/ \E draws \in Draws : \E secret \in Secrets : \E metadata \in Metadatas :
         StoreCreateSession(draws, secret, metadata)
    \/ \E id \in SessionIds : \E role \in Roles : \E ws \in Conns : StoreRegister(id, role, ws)
    \/ \E id \in SessionIds : \E role \in Roles : StoreUnregister(id, role)
    \/ \E id \in SessionIds : StoreDelete(id)
    \/ CleanupExpiredSessions

SpecCreate == Init /\ [][NextCreate]_vars

\* the store as GET /session/:id can find it: sessions created with and
\* without metadata, attached to, detached from and terminated
NextInfo ==
    \/ \E draws \in Draws : \E metadata \in Metadatas :
         StoreCreateSession(draws, RelaySecret, metadata)
    \/ \E id \in SessionIds : \E role \in Roles : \E ws \in Conns : StoreRegister(id, role, ws)
    \/ \E id \in SessionIds : \E role \in Roles : StoreUnregister(id, role)
    \/ \E id \in SessionIds : \E code \in TerminalCodes : StoreTerminate(id, code)

SpecInfo == Init /\ [][NextInfo]_vars

\* the clock of the sweeper's specification: two advances, each just past a
\* timeout or onto the pending one
SweeperTickSteps == {PENDING_TIMEOUT, PENDING_TIMEOUT + 1, CONNECTED_TIMEOUT + 1}

SweeperTick(d) ==
    /\ ticks < MaxSweeperTicks
    /\ now' = now + d
    /\ ticks' = ticks + 1
    /\ UNCHANGED <<httpVars, sdkVars, bothAt, sessions, cstate, httpStatus, csid, crole,
                   inbox, closeInfo, sent, nsent, reg>>

SweeperQueries == {q \in ExpiryQueries : q.session = RelayId}

\* one session id against the clock and the sweeper: the session is created,
\* attached to and detached from, swept, and created again
NextSweeper ==
    \/ \E d \in SweeperTickSteps : SweeperTick(d)
    \/ CreateSession(RelayId, RelaySecret)
    \/ \E c \in Conns : \E q \in SweeperQueries : Handshake(c, q)
    \/ \E c \in Conns : Open(c)
    \/ \E c \in Conns : Close(c)
    \/ CleanupExpiredSessions

\* startCleanupInterval(): setInterval keeps calling cleanupExpiredSessions
SpecSweeper == Init /\ [][NextSweeper]_vars /\ WF_vars(CleanupExpiredSessions)

\* one session id reused: the session is created, attached to, expires and is
\* swept, a session with the same id is created, and the connections of both
\* send frames and close
NextReuse ==
    \/ \E d \in TickSteps : Tick(d)
    \/ CreateSession(RelayId, RelaySecret)
    \/ \E c \in Conns : \E q \in SweeperQueries : Handshake(c, q)
    \/ \E c \in Conns : Open(c)
    \/ \E c \in Conns : Message(c, "compact")
    \/ \E c \in Conns : Close(c)
    \/ CleanupExpiredSessions

SpecReuse == Init /\ [][NextReuse]_vars

(* ---- DApp SDK: RemoteProvider (provider.ts) ---- *)
maxReconnectAttempts == 5

\* the close codes the close event of an established socket can carry: a
\* normal closure, an abnormal one, and the relay's rejection
CloseCodes == {1000, 1006, 1008}
\* the close code of a socket that never opened
AbnormalClosure == 1006

DisconnectInfo(code, userInitiated) ==
    [event |-> "disconnect", code |-> code, userInitiated |-> userInitiated]
\* the reconnecting event; code carries its attempt number
ReconnectInfo(attempt) ==
    [event |-> "reconnecting", code |-> attempt, userInitiated |-> FALSE]

freeSocks(sk) == {s \in Socks : sk[s].state = "unused"}

\* ws.close() on socket s, called by the provider
wsClose(sk, s) ==
    IF s = NoSocket THEN sk
    ELSE IF sk[s].state = "connecting" THEN [sk EXCEPT ![s].state = "aborting"]
    ELSE IF sk[s].state = "open" THEN [sk EXCEPT ![s].state = "closing"]
    ELSE sk

\* connectWebSocket(): this.ws = new WebSocket(..), with its 10 s timer
connectWebSocket(p, sk) ==
    LET s == CHOOSE x \in freeSocks(sk) : \A y \in freeSocks(sk) : x <= y
    IN [provider |-> [p EXCEPT !.ws = s],
        socks |-> [sk EXCEPT ![s] = [state |-> "connecting", code |-> 0, timeout |-> TRUE]]]

\* onclose that tries to reconnect before it looks at the close code
oncloseRetryFirst(p, code) ==
    IF p.userInitiatedDisconnect
    THEN [provider |-> [p EXCEPT !.connected = FALSE],
          emit |-> <<DisconnectInfo(4900, TRUE)>>]
    ELSE IF p.reconnectAttempts < maxReconnectAttempts
    THEN [provider |-> [p EXCEPT !.reconnectAttempts = @ + 1,
                                 !.reconnectTimer = TRUE,
                                 !.strayTimers = IF p.reconnectTimer THEN @ + 1 ELSE @],
          emit |-> <<ReconnectInfo(p.reconnectAttempts + 1)>>]
    ELSE IF code = 1008
    THEN [provider |-> [p EXCEPT !.connected = FALSE],
          emit |-> <<DisconnectInfo(code, FALSE)>>]
    ELSE [provider |-> [p EXCEPT !.connected = FALSE],
          emit |-> <<DisconnectInfo(4900, FALSE)>>]

\* ws.onclose(event) after clearTimeout: the provider's fields afterwards and
\* the events it emits
onclose(p, code) ==
    IF p.userInitiatedDisconnect
    THEN [provider |-> [p EXCEPT !.connected = FALSE],
          emit |-> <<DisconnectInfo(4900, TRUE)>>]
    ELSE IF code = 1008
    THEN [provider |-> [p EXCEPT !.connected = FALSE],
          emit |-> <<DisconnectInfo(code, FALSE)>>]
    ELSE IF p.reconnectAttempts < maxReconnectAttempts
    THEN [provider |-> [p EXCEPT !.reconnectAttempts = @ + 1,
                                 !.reconnectTimer = TRUE,
                                 !.strayTimers = IF p.reconnectTimer THEN @ + 1 ELSE @],
          emit |-> <<ReconnectInfo(p.reconnectAttempts + 1)>>]
    ELSE [provider |-> [p EXCEPT !.connected = FALSE],
          emit |-> <<DisconnectInfo(4900, FALSE)>>]

serverVars == <<sessions, now, ticks, cstate, httpStatus, csid, crole, inbox,
                closeInfo, sent, nsent, reg, httpVars, bothAt>>

\* connect() or resumeSession(): the flags are reset, and when the fetch
\* succeeds (okFetch) connectWebSocket() runs
SdkConnect(okFetch) ==
    /\ freeSocks(socks) # {}
    /\ LET p == [provider EXCEPT !.userInitiatedDisconnect = FALSE,
                                 !.reconnectAttempts = 0]
           r == connectWebSocket(p, socks)
       IN IF okFetch
          THEN provider' = r.provider /\ socks' = r.socks
          ELSE provider' = p /\ socks' = socks
    /\ UNCHANGED <<serverVars, emitted, rpc>>

\* ws.onopen of socket s
WsOpen(s) ==
    /\ socks[s].state = "connecting"
    /\ socks' = [socks EXCEPT ![s].state = "open", ![s].timeout = FALSE]
    /\ provider' = [provider EXCEPT !.reconnectAttempts = 0]
    /\ UNCHANGED <<serverVars, emitted, rpc>>

\* the 10 s timer of the connectWebSocket call that created s fires
ConnectTimeout(s) ==
    /\ socks[s].timeout
    /\ socks' = [wsClose(socks, provider.ws) EXCEPT ![s].timeout = FALSE]
    /\ UNCHANGED <<serverVars, provider, emitted, rpc>>

\* handleMessage of a 'connect' frame received on socket s
SdkPeerConnect(s) ==
    /\ socks[s].state = "open"
    /\ Len(emitted) + 2 <= MaxEmitted
    /\ provider' = [provider EXCEPT !.connected = TRUE, !.accounts = <<"0xabc">>]
    /\ emitted' = emitted \o <<[event |-> "connect", code |-> 0, userInitiated |-> FALSE],
                                [event |-> "accountsChanged", code |-> 0, userInitiated |-> FALSE]>>
    /\ UNCHANGED <<serverVars, socks, rpc>>

\* ws.onclose of socket s with event.code = code
WsClose(s, code) ==
    /\ socks[s].state \in {"connecting", "aborting", "open", "closing"}
    /\ socks[s].state \in {"connecting", "aborting"} => code = AbnormalClosure
    /\ LET r == onclose(provider, code)
       IN /\ provider' = r.provider
          /\ emitted' = emitted \o r.emit
    /\ socks' = [socks EXCEPT ![s] = [state |-> "closed", code |-> code, timeout |-> FALSE]]
    /\ UNCHANGED <<serverVars, rpc>>

\* a reconnect timer fires; held says whether it is the one _reconnectTimer holds
ReconnectTimer(held) ==
    /\ IF held THEN provider.reconnectTimer ELSE provider.strayTimers > 0
    /\ provider.userInitiatedDisconnect \/ freeSocks(socks) # {}
    /\ LET p == IF held THEN [provider EXCEPT !.reconnectTimer = FALSE]
                ELSE [provider EXCEPT !.strayTimers = @ - 1]
           r == connectWebSocket(p, socks)
       IN IF p.userInitiatedDisconnect
          THEN provider' = p /\ socks' = socks
          ELSE provider' = r.provider /\ socks' = r.socks
    /\ UNCHANGED <<serverVars, emitted, rpc>>

\* disconnect() that leaves the reconnect timer pending
SdkDisconnectKeepTimer ==
    /\ provider' = [provider EXCEPT !.userInitiatedDisconnect = TRUE,
                                    !.ws = NoSocket,
                                    !.connected = FALSE,
                                    !.accounts = << >>,
                                    !.reconnectAttempts = 0]
    /\ socks' = wsClose(socks, provider.ws)
    /\ UNCHANGED <<serverVars, emitted, rpc>>

\* disconnect()
SdkDisconnect ==
    /\ provider' = [provider EXCEPT !.userInitiatedDisconnect = TRUE,
                                    !.reconnectTimer = FALSE,
                                    !.ws = NoSocket,
                                    !.connected = FALSE,
                                    !.accounts = << >>,
                                    !.reconnectAttempts = 0]
    /\ socks' = wsClose(socks, provider.ws)
    /\ UNCHANGED <<serverVars, emitted, rpc>>

\* the provider with its sockets: the application connects and disconnects,
\* sockets open and close with any code, timers fire; MaxSockets sockets are
\* created at most
NextProvider ==
    \/ \E okFetch \in BOOLEAN :
         Cardinality(Socks \ freeSocks(socks)) < MaxSockets /\ SdkConnect(okFetch)
    \/ \E s \in Socks : WsOpen(s)
    \/ \E s \in Socks : ConnectTimeout(s)
    \/ \E s \in Socks : SdkPeerConnect(s)
    \/ \E s \in Socks : \E code \in CloseCodes : WsClose(s, code)
    \/ \E held \in BOOLEAN :
         /\ provider.userInitiatedDisconnect
              \/ Cardinality(Socks \ freeSocks(socks)) < MaxSockets
         /\ ReconnectTimer(held)
    \/ SdkDisconnect

SpecProvider == Init /\ [][NextProvider]_vars

\* the provider losing its connection again and again: connect() or
\* resumeSession() is called for the first two sockets, every further socket
\* is one a reconnect timer creates
NextReconnect ==
    \/ \E okFetch \in BOOLEAN :
         Cardinality(Socks \ freeSocks(socks)) < 2 /\ SdkConnect(okFetch)
    \/ \E s \in Socks : WsOpen(s)
    \/ \E s \in Socks : ConnectTimeout(s)
    \/ \E s \in Socks : \E code \in CloseCodes : WsClose(s, code)
    \/ \E held \in BOOLEAN : ReconnectTimer(held)
    \/ SdkDisconnect

SpecReconnect == Init /\ [][NextReconnect]_vars

(* ---- DApp SDK: requests (provider.ts, request / sendRequest / handleResponse) ---- *)
\* handleResponse that settles the oldest pending request, whatever id the
\* frame carries
handleResponseAnyPending(r, message) ==
    IF r.pendingRequests = {} THEN r
    ELSE LET id == CHOOSE x \in r.pendingRequests : \A y \in r.pendingRequests : x <= y
         IN [r EXCEPT
               !.timers = [x \in (DOMAIN r.timers) \ {id} |-> r.timers[x]],
               !.pendingRequests = @ \ {id},
               !.settled = MapSet(@, id,
                   (IF id \in DOMAIN r.settled THEN r.settled[id] ELSE << >>)
                     \o <<IF "error" \in DOMAIN message
                           THEN [call |-> "reject", code |-> message.error.code]
                           ELSE [call |-> "resolve", result |-> message.result]>>)]

\* handleResponse that leaves the timer of the request running
handleResponseKeepTimer(r, message) ==
    IF message.id \notin r.pendingRequests THEN r
    ELSE [r EXCEPT
            !.pendingRequests = @ \ {message.id},
            !.settled = MapSet(@, message.id,
                (IF message.id \in DOMAIN r.settled THEN r.settled[message.id] ELSE << >>)
                  \o <<IF "error" \in DOMAIN message
                        THEN [call |-> "reject", code |-> message.error.code]
                        ELSE [call |-> "resolve", result |-> message.result]>>)]

\* handleResponse(message): a frame is the set of properties its JSON text
\* has; result is undefined when the frame has none
handleResponse(r, message) ==
    IF message.id \notin r.pendingRequests THEN r
    ELSE [r EXCEPT
            !.timers = [x \in (DOMAIN r.timers) \ {message.id} |-> r.timers[x]],
            !.pendingRequests = @ \ {message.id},
            !.settled = MapSet(@, message.id,
                (IF message.id \in DOMAIN r.settled THEN r.settled[message.id] ELSE << >>)
                  \o <<IF "error" \in DOMAIN message
                        THEN [call |-> "reject", code |-> message.error.code]
                        ELSE [call |-> "resolve", result |-> message.result]>>)]

\* request(args) for a method that is forwarded: the two connection tests,
\* then sendRequest
SdkRequest ==
    /\ provider.ws # NoSocket
    /\ socks[provider.ws].state = "open"
    /\ provider.connected
    /\ rpc.requestId < MaxRequests
    /\ LET id == rpc.requestId + 1
       IN rpc' = [rpc EXCEPT !.requestId = id,
                             !.pendingRequests = @ \cup {id},
                             !.timers = MapSet(@, id, now + REQUEST_TIMEOUT)]
    /\ UNCHANGED <<serverVars, provider, socks, emitted>>

\* handleMessage of a 'response' frame received on socket s
SdkResponse(s, message) ==
    /\ socks[s].state = "open"
    /\ rpc' = handleResponse(rpc, message)
    /\ UNCHANGED <<serverVars, provider, socks, emitted>>

\* the timer of request id fires, when the clock has reached the time it is
\* due; timers fire in the order they are due
RequestTimeout(id) ==
    /\ id \in DOMAIN rpc.timers
    /\ \A x \in DOMAIN rpc.timers : rpc.timers[id] <= rpc.timers[x]
    /\ now' = IF now > rpc.timers[id] THEN now ELSE rpc.timers[id]
    /\ rpc' = [rpc EXCEPT
                 !.timers = [x \in (DOMAIN rpc.timers) \ {id} |-> rpc.timers[x]],
                 !.pendingRequests = @ \ {id},
                 !.settled = MapSet(@, id,
                     (IF id \in DOMAIN rpc.settled THEN rpc.settled[id] ELSE << >>)
                       \o <<[call |-> "reject", code |-> -32003]>>)]
    /\ UNCHANGED <<sessions, ticks, cstate, httpStatus, csid, crole, inbox, closeInfo,
                   sent, nsent, reg, httpVars, bothAt, provider, socks, emitted>>

\* handleMessage of a 'disconnect' frame received on socket s
SdkPeerDisconnect(s) ==
    /\ socks[s].state = "open"
    /\ Len(emitted) < MaxEmitted
    /\ provider' = [provider EXCEPT !.connected = FALSE, !.accounts = << >>]
    /\ emitted' = Append(emitted, DisconnectInfo(4900, FALSE))
    /\ UNCHANGED <<serverVars, socks, rpc>>

\* the 'response' frames a socket can deliver: any id, issued or not, with a
\* result, an error, both or neither (message.result is then undefined)
ResponseFrames ==
    UNION {{[type |-> "response", id |-> id, result |-> undefined],
            [type |-> "response", id |-> id, result |-> "0xsignature123"],
            [type |-> "response", id |-> id, result |-> undefined,
             error |-> [code |-> 4001, message |-> "User rejected"]],
            [type |-> "response", id |-> id, result |-> "0xsignature123",
             error |-> [code |-> 4001, message |-> "User rejected"]]} :
           id \in 0..(MaxRequests + 1)}

\* the provider sending requests: up to two sockets, the wallet connecting
\* and disconnecting, 'response' frames with any id, with a result, an error,
\* both or neither, request timers, closes and reconnects
NextRequests ==
    \/ Cardinality(Socks \ freeSocks(socks)) < 2 /\ SdkConnect(TRUE)
    \/ \E s \in Socks : WsOpen(s)
    \/ \E s \in Socks : SdkPeerConnect(s)
    \/ \E s \in Socks : SdkPeerDisconnect(s)
    \/ SdkRequest
    \/ \E s \in Socks : \E message \in ResponseFrames : SdkResponse(s, message)
    \/ \E id \in 1..MaxRequests : RequestTimeout(id)
    \/ \E s \in Socks : \E code \in CloseCodes : WsClose(s, code)
    \/ \E held \in BOOLEAN :
         /\ provider.userInitiatedDisconnect \/ Cardinality(Socks \ freeSocks(socks)) < 2
         /\ ReconnectTimer(held)
    \/ SdkDisconnect

\* setTimeout: the timer of a pending request fires
SpecRequests ==
    Init /\ [][NextRequests]_vars /\ \A id \in 1..MaxRequests : WF_vars(RequestTimeout(id))

TypeOK ==
    /\ DOMAIN sessions \subseteq PostIds
    /\ \A c \in Conns : cstate[c] \in {"new", "refused", "upgraded", "open", "closing", "closed"}

(* ---- vocabulary of the properties ---- *)
Indices(q) == 1..Len(q)

\* how often frame x occurs in the sequence q
Count(x, q) == Cardinality({i \in Indices(q) : q[i] = x})

\* connection c is held in the slot of its role in its session
attached(c) ==
    /\ csid[c] \in DOMAIN sessions
    /\ slotOf(sessions, csid[c], crole[c]) = c

\* the opposite-role slot of the session of c
peerSlot(c) == slotOf(sessions, csid[c], otherRole(crole[c]))

\* this step is the close handler of c
ClosedNow(c) == cstate[c] \in {"open", "closing"} /\ cstate'[c] = "closed"

\* this step is the open handler of c
OpenedNow(c) == cstate[c] = "upgraded" /\ cstate'[c] # "upgraded"

\* this step is the message handler of c
SentNow(c) == Len(sent'[c]) = Len(sent[c]) + 1

Rejected1008 == [code |-> 1008, reason |-> "Session not found or already locked"]

(* ---- C1 ---- *)
\* C1: when an attached connection closes while the opposite-role peer is
\* attached, the relay sends that peer exactly one disconnect frame and does
\* not close the peer's connection.
C1_PeerNotifiedOnClose ==
    [][\A c \in Conns :
         (ClosedNow(c) /\ attached(c) /\ peerSlot(c) # NoConn)
           => /\ inbox'[peerSlot(c)] = Append(inbox[peerSlot(c)], DisconnectFrame)
              /\ cstate'[peerSlot(c)] = cstate[peerSlot(c)]]_vars

(* ---- C2 ---- *)
\* C2: of two Mobile connections that both passed the handshake before either
\* registered, the one whose open handler runs while the other holds the
\* mobile slot is refused (no session returned, closed with 1008 and the
\* reason, never sent ready), and the holder is the one that registered and
\* was sent ready once.
C2_MobileRace ==
    \A d \in Conns :
      (crole[d] = "mobile" /\ reg[d].result # "none" /\ reg[d].holder # NoConn)
        => /\ reg[d].result = "rejected"
           /\ closeInfo[d] = Rejected1008
           /\ cstate[d] \in {"closing", "closed"}
           /\ Count(ReadyFrame, inbox[d]) = 0
           /\ LET c == reg[d].holder
              IN /\ c # d
                 /\ crole[c] = "mobile"
                 /\ csid[c] = csid[d]
                 /\ reg[c].result = "ok"
                 /\ Count(ReadyFrame, inbox[c]) = 1

C2_Witness ==
    \E d \in Conns :
      /\ crole[d] = "mobile"
      /\ reg[d].result = "rejected"
      /\ reg[d].found
      /\ reg[d].holder # NoConn
      /\ cstate[d] = "closed"

(* ---- C3 ---- *)
\* C3: while a Mobile connection is attached, registerConnection(id, mobile,
\* other) returns null and leaves mobile, mobileLocked, status and expiresAt
\* of the session as they were.
C3_SecondMobileRejected ==
    [][\A d \in Conns :
         (OpenedNow(d) /\ crole[d] = "mobile"
            /\ slotOf(sessions, csid[d], "mobile") # NoConn)
           => /\ reg'[d].result = "rejected"
              /\ csid[d] \in DOMAIN sessions'
              /\ sessions'[csid[d]].mobile = sessions[csid[d]].mobile
              /\ sessions'[csid[d]].mobileLocked = sessions[csid[d]].mobileLocked
              /\ sessions'[csid[d]].status = sessions[csid[d]].status
              /\ sessions'[csid[d]].expiresAt = sessions[csid[d]].expiresAt]_vars

C3_Witness ==
    \E d \in Conns :
      /\ crole[d] = "mobile"
      /\ reg[d].result = "rejected"
      /\ reg[d].holder # NoConn
      /\ csid[d] \in DOMAIN sessions
      /\ sessions[csid[d]].mobile = reg[d].holder
      /\ sessions[csid[d]].status = "connected"

(* ---- C4 ---- *)
\* C4: after any sequence of store calls every stored session has
\* mobileLocked = (mobile # null).
C4_LockIffMobile ==
    \A id \in DOMAIN sessions :
      sessions[id].mobileLocked = (sessions[id].mobile # NoConn)

\* a session that was connected and whose Mobile has been unregistered, beside
\* one whose Mobile is attached
C4_Witness ==
    \E id1, id2 \in DOMAIN sessions :
      /\ sessions[id1].expiresAt >= CONNECTED_TIMEOUT
      /\ sessions[id1].mobile = NoConn
      /\ sessions[id1].status = "disconnected"
      /\ sessions[id2].mobile # NoConn

(* ---- C5 ---- *)
\* C5: a session whose status is connected has both slots non-null.
C5_ConnectedHasBoth ==
    \A id \in DOMAIN sessions :
      sessions[id].status = "connected"
        => sessions[id].dapp # NoConn /\ sessions[id].mobile # NoConn

\* a session that is connected, beside one that was connected and lost a side
C5_Witness ==
    \E id1, id2 \in DOMAIN sessions :
      /\ sessions[id1].status = "connected"
      /\ sessions[id2].status = "disconnected"
      /\ sessions[id2].expiresAt >= CONNECTED_TIMEOUT

(* ---- C6 ---- *)
\* C6: every frame F sent by an attached peer while both sides are attached
\* reaches the opposite-role peer exactly as F, and no other connection.
C6_ForwardIdentity ==
    [][\A c \in Conns :
         (SentNow(c) /\ attached(c) /\ peerSlot(c) # NoConn)
           => /\ inbox'[peerSlot(c)] =
                   Append(inbox[peerSlot(c)], sent'[c][Len(sent'[c])].frame)
              /\ \A q \in Conns \ {peerSlot(c)} : inbox'[q] = inbox[q]]_vars

(* ---- C7 ---- *)
\* the frames c sent while the opposite-role slot of its session was empty
droppedOf(c) == {i \in Indices(sent[c]) : sent[c][i].peer = NoConn}

\* C7: a frame sent while the opposite-role slot is empty is answered with
\* the error frame to the sender and is never delivered to anybody, also not
\* to a peer that attaches later.
C7_PeerAbsent ==
    \A c \in Conns :
      /\ Count(ErrorFrame, inbox[c]) = Cardinality(droppedOf(c))
      /\ \A i \in droppedOf(c) : \A q \in Conns : \A j \in Indices(inbox[q]) :
           inbox[q][j].n # sent[c][i].frame.n

\* a sender whose frame was dropped, the peer has attached since and has been
\* sent a later frame
C7_Witness ==
    \E c \in Conns :
      /\ droppedOf(c) # {}
      /\ cstate[c] = "open"
      /\ peerSlot(c) # NoConn
      /\ \E j \in Indices(inbox[peerSlot(c)]) : inbox[peerSlot(c)][j].src = c

C9_ReadyFirstOnce ==
    \A c \in Conns :
      /\ reg[c].result = "ok"
           => /\ Len(inbox[c]) >= 1
              /\ inbox[c][1] = ReadyFrame
              /\ Count(ReadyFrame, inbox[c]) = 1
      /\ reg[c].result # "ok" => inbox[c] = << >>

\* a registered connection that was forwarded a frame, and a refused one
C9_Witness ==
    \E c, d \in Conns :
      /\ reg[c].result = "ok"
      /\ \E j \in Indices(inbox[c]) : inbox[c][j].type = "payload"
      /\ reg[d].result = "rejected"

(* ---- C10 ---- *)
\* the DApp connections that registered while x held the mobile slot
reconnectsSeenBy(x) ==
    {c \in Conns : crole[c] = "dapp" /\ reg[c].result = "ok" /\ reg[c].existingPeer = x}

\* C10: a DApp that attaches while the mobile slot is occupied has
\* dapp_reconnected sent to that Mobile before any frame of the new DApp
\* connection is forwarded to it; dapp_reconnected is sent on no other
\* occasion.
C10_DappReconnected ==
    \A x \in Conns :
      /\ Count(DappReconnectedFrame, inbox[x]) = Cardinality(reconnectsSeenBy(x))
      /\ \A c \in reconnectsSeenBy(x) :
           /\ reg[c].notifiedAt \in Indices(inbox[x])
           /\ inbox[x][reg[c].notifiedAt] = DappReconnectedFrame
           /\ \A j \in Indices(inbox[x]) :
                inbox[x][j].src = c => j > reg[c].notifiedAt

\* a Mobile that was told of a DApp reconnect and then forwarded a frame of it,
\* and a Mobile attach with a DApp present
C10_Witness ==
    \E x, c, m \in Conns :
      /\ c \in reconnectsSeenBy(x)
      /\ \E j \in Indices(inbox[x]) : inbox[x][j].src = c
      /\ crole[m] = "mobile" /\ reg[m].result = "ok" /\ reg[m].existingPeer # NoConn

(* ---- C11 ---- *)
\* C11: of a terminated session, every registerConnection(id, role, conn), for
\* role dapp or mobile, returns none and attaches nothing; the session has
\* terminated = true and status = disconnected, and the connections in its
\* slots were closed.
C11_TerminatedRefuses ==
    \A id \in DOMAIN sessions :
      isTerminated(sessions[id])
        => /\ sessions[id].status = "disconnected"
           /\ \A c \in terminatedConns(sessions, id) : cstate[c] \in {"closing", "closed"}
           /\ \A role \in Roles : \A ws \in Conns :
                LET r == registerConnection(sessions, id, role, ws, now)
                IN ~r.ok /\ r.sessions = sessions

(* ---- C12 ---- *)
\* C12: the number of sessions in the store never exceeds MAX_SESSIONS,
\* however the POST /session handlers interleave.
C12_CapacityNeverExceeded == Cardinality(DOMAIN sessions) <= MAX_SESSIONS

(* ---- C15 ---- *)
\* this step is the admission of a POST /session request
PostedNow == posts' = posts + 1

\* the quota of key k is used up in the window that is open at time t
exhausted(en, cfg, k, t) ==
    k \in DOMAIN en /\ t < en[k].resetAt /\ en[k].count >= cfg.maxRequests

\* C15: POST /session looks at the capacity before the rate limit: at
\* capacity the answer is 503 and neither the store nor the limiter's map
\* changes; the answer 429 is given only below capacity to a client whose
\* quota is used up and leaves the store unchanged; no admission step creates
\* a session.
C15_AdmissionOrder ==
    [][PostedNow =>
         /\ sessions' = sessions
         /\ isAtCapacity(sessions) <=> postResp'.status = 503
         /\ postResp'.status = 503 => entries' = entries
         /\ postResp'.status = 429 <=>
               (~isAtCapacity(sessions) /\ exhausted(entries, config, postResp'.ip, now))]_vars

\* a client was answered 429, and the latest request, of a client that has
\* quota left, was answered 503
C15_Witness ==
    /\ 429 \in postResp.seen
    /\ postResp.status = 503
    /\ ~exhausted(entries, config, postResp.ip, now)

(* ---- C13 ---- *)
\* this step is the handshake of c
ShakenNow(c) == cstate[c] = "new" /\ cstate'[c] # "new"

\* the Mobile handshake requests that name session id
mobileQueries(id) == [session : {id}, role : {"mobile"}, k : QueryKeys]

inWindow(k, i) ==
    {j \in Indices(calls[k]) :
       j >= i /\ calls[k][j].t < calls[k][i].t + config.windowMs}

\* C14: among the check(k) calls made at times in [t0, t0 + W), t0 the time
\* of the call that opened the window, at most N return true, and every call
\* after the N-th accepted one returns false.
C14_WindowLimit ==
    \A k \in ClientIPs : \A i \in Indices(calls[k]) :
      calls[k][i].opened
        => /\ Cardinality({j \in inWindow(k, i) : calls[k][j].ok}) <= config.maxRequests
           /\ \A j \in inWindow(k, i) :
                Cardinality({x \in inWindow(k, i) : x < j /\ calls[k][x].ok})
                    >= config.maxRequests
                  => ~calls[k][j].ok

\* a key that used up a window, was turned away in it, and was accepted
\* again in a later window
C14_Witness ==
    \E k \in ClientIPs : \E i, j, l \in Indices(calls[k]) :
      /\ i < j /\ j < l
      /\ calls[k][i].opened
      /\ j \in inWindow(k, i) /\ ~calls[k][j].ok
      /\ calls[k][l].opened /\ calls[k][l].ok

(* ---- C16 ---- *)
\* the checks of the handshake, each on its own
missingParam(q) == q.session = Missing \/ q.role = Missing
invalidRole(q) == q.role \notin Roles
unknownSession(ss, q) == q.session \notin DOMAIN ss
badSecret(ss, q) == q.role = "mobile" /\ (q.k = Missing \/ q.k # ss[q.session].secret)
lockedMobile(ss, q) == q.role = "mobile" /\ ss[q.session].mobileLocked

\* C16: the handshake answers with the first failing check in the order
\* missing session or role (400), invalid role (400), unknown session (404),
\* Mobile with missing or wrong k (403), Mobile on a locked session (409), and
\* upgrades when none fails; so a Mobile with a wrong secret on a locked
\* session gets 403, a second Mobile with the right secret gets 409, and a
\* DApp on an existing session gets neither 403 nor 409.
C16_HandshakeOrder ==
    [][probe' # probe =>
         LET q == probe'.q
             st == probe'.status
             bad400 == missingParam(q) \/ invalidRole(q)
         IN /\ st = 400 <=> bad400
            /\ st = 404 <=> (~bad400 /\ unknownSession(sessions, q))
            /\ st = 403 <=> (~bad400 /\ ~unknownSession(sessions, q)
                               /\ badSecret(sessions, q))
            /\ st = 409 <=> (~bad400 /\ ~unknownSession(sessions, q)
                               /\ ~badSecret(sessions, q) /\ lockedMobile(sessions, q))
            /\ st \in {400, 404, 403, 409, 101}
            /\ (q.role = "dapp" /\ q.session \in DOMAIN sessions) => st = 101]_vars

\* a Mobile with a wrong secret was answered 403 on a session that was locked
C16_Witness ==
    /\ probe.status = 403
    /\ probe.locked
    /\ probe.q.k \in Secrets

(* ---- C17 ---- *)
RefusalStatuses == {400, 403, 404, 409}

\* C17: a handshake answered 400, 403, 404 or 409 leaves every session record
\* as it was and sends no frame to any connection; the refused connection is
\* never upgraded.
C17_RefusalNoEffect ==
    [][\A c \in Conns :
         (ShakenNow(c) /\ httpStatus'[c] \in RefusalStatuses)
           => /\ sessions' = sessions
              /\ inbox' = inbox
              /\ closeInfo' = closeInfo
              /\ cstate'[c] = "refused"
              /\ \A d \in Conns \ {c} : cstate'[d] = cstate[d]]_vars

\* a Mobile answered 409 and a connection answered 403 on a session that is
\* locked and on which a frame was sent
C17_Witness ==
    \E c, d1, d2 \in Conns :
      /\ httpStatus[c] = 409
      /\ httpStatus[d1] = 403
      /\ attached(d2) /\ sessions[csid[d2]].mobileLocked
      /\ nsent > 0

(* ---- C18 ---- *)
\* C18: the registration of a DApp connection on an existing session always
\* succeeds, also while another DApp is attached, and leaves the new
\* connection in the dapp slot; a frame a Mobile sends is forwarded to the
\* connection the dapp slot holds and to no other, so not to a DApp
\* connection that was replaced.
C18_DappReplaces ==
    [][\A c \in Conns :
         /\ (OpenedNow(c) /\ crole[c] = "dapp" /\ csid[c] \in DOMAIN sessions)
              => /\ reg'[c].result = "ok"
                 /\ csid[c] \in DOMAIN sessions'
                 /\ sessions'[csid[c]].dapp = c
         /\ (SentNow(c) /\ crole[c] = "mobile"
               /\ slotOf(sessions, csid[c], "dapp") # NoConn)
              => LET d == slotOf(sessions, csid[c], "dapp")
                     f == sent'[c][Len(sent'[c])].frame
                 IN /\ Len(inbox'[d]) = Len(inbox[d]) + 1
                    /\ inbox'[d][Len(inbox'[d])].src = c
                    /\ inbox'[d][Len(inbox'[d])].n = f.n
                    /\ \A x \in Conns \ {d} : inbox'[x] = inbox[x]]_vars

\* DApp c2 registered while DApp c1 held the slot; c1 is still open and has
\* no frame of the Mobile, c2 holds the slot and has one
C18_Witness ==
    \E c1, c2, m \in Conns :
      /\ crole[c1] = "dapp" /\ crole[c2] = "dapp" /\ crole[m] = "mobile"
      /\ reg[c1].result = "ok" /\ reg[c2].result = "ok"
      /\ reg[c2].holder = c1
      /\ cstate[c1] = "open"
      /\ slotOf(sessions, csid[c2], "dapp") = c2
      /\ \E j \in Indices(inbox[c2]) : inbox[c2][j].src = m
      /\ \A j \in Indices(inbox[c1]) : inbox[c1][j].src # m

(* ---- C19 ---- *)
\* the handshake request of a Mobile that carries the secret of session id
mobileQuery(ss, id) == [session |-> id, role |-> "mobile", k |-> ss[id].secret]

\* C19: when the attached Mobile detaches, the session stays in the store,
\* not terminated, with the mobile slot empty and the lock released; and
\* whenever the mobile slot of a session is empty, a Mobile handshake with
\* the session's secret is upgraded and registerConnection(id, mobile, m2)
\* succeeds and attaches m2.
C19_LockReleased ==
    [][/\ \A c \in Conns :
            (ClosedNow(c) /\ crole[c] = "mobile" /\ attached(c))
              => /\ csid[c] \in DOMAIN sessions'
                 /\ sessions'[csid[c]].mobile = NoConn
                 /\ ~isMobileLocked(sessions', csid[c])
                 /\ ~isTerminated(sessions'[csid[c]])
                 /\ sessions'[csid[c]].secret = sessions[csid[c]].secret
       /\ \A id \in DOMAIN sessions' :
            sessions'[id].mobile = NoConn
              => /\ ~isMobileLocked(sessions', id)
                 /\ beforeHandle(sessions', mobileQuery(sessions', id)) = 101
                 /\ \A m2 \in Conns :
                      LET r == registerConnection(sessions', id, "mobile", m2, now')
                      IN r.ok /\ r.sessions[id].mobile = m2
       /\ \A m2 \in Conns :
            (OpenedNow(m2) /\ crole[m2] = "mobile" /\ csid[m2] \in DOMAIN sessions
               /\ sessions[csid[m2]].mobile = NoConn)
              => (reg'[m2].result = "ok" /\ sessions'[csid[m2]].mobile = m2)]_vars

\* Mobile m1 was attached and has closed, Mobile m2 is attached to the same
\* session since
C19_Witness ==
    \E m1, m2 \in Conns :
      /\ m1 # m2
      /\ crole[m1] = "mobile" /\ crole[m2] = "mobile" /\ csid[m1] = csid[m2]
      /\ reg[m1].result = "ok" /\ cstate[m1] = "closed"
      /\ reg[m2].result = "ok" /\ reg[m2].holder = NoConn /\ attached(m2)
      /\ httpStatus[m2] = 101

(* ---- C20 ---- *)
SessionExpired == [code |-> 1000, reason |-> "Session expired"]

\* the connections held in the slots of session id
slotConns(ss, id) == {ss[id].dapp, ss[id].mobile} \ {NoConn}

\* this step removes a session: it is a run of cleanupExpiredSessions that
\* found one expired
SweptNow == \E id \in DOMAIN sessions : id \notin DOMAIN sessions'

\* C20: cleanupExpiredSessions at time now removes exactly the sessions with
\* now > expiresAt, closes the connections in their slots with code 1000 and
\* reason 'Session expired', and leaves every other session and its
\* connections as they were; GET /session/:id of a removed session answers
\* 404; a session with now <= expiresAt is never removed.
C20_SweepExactlyExpired ==
    [][/\ \A id \in DOMAIN sessions :
            now <= sessions[id].expiresAt => id \in DOMAIN sessions'
       /\ SweptNow =>
            /\ now' = now
            /\ inbox' = inbox
            /\ \A id \in DOMAIN sessions :
                 IF now > sessions[id].expiresAt
                 THEN /\ id \notin DOMAIN sessions'
                      /\ getSessionInfo(sessions', id).status = 404
                      /\ \A c \in slotConns(sessions, id) :
                           cstate'[c] = "closing" /\ closeInfo'[c] = SessionExpired
                 ELSE /\ id \in DOMAIN sessions'
                      /\ sessions'[id] = sessions[id]
                      /\ \A c \in slotConns(sessions, id) :
                           cstate'[c] = cstate[c] /\ closeInfo'[c] = closeInfo[c]]_vars

\* a sweep has closed the connection of a removed session and has kept a
\* session that was at its expiry to the millisecond
C20_Witness ==
    \E c \in Conns : \E id \in DOMAIN sessions :
      /\ closeInfo[c] = SessionExpired
      /\ csid[c] \notin DOMAIN sessions
      /\ getSessionInfo(sessions, csid[c]).status = 404
      /\ sessions[id].expiresAt = now
      /\ sessions[id].createdAt < now
      /\ slotConns(sessions, id) # {}

(* ---- C21 ---- *)
\* the time after which the sweeper is to remove session id: 24 h after the
\* last time both sides became attached, 5 min after its creation when they
\* never were
deadline(id) ==
    IF id \in DOMAIN bothAt THEN bothAt[id] + CONNECTED_TIMEOUT
    ELSE sessions[id].createdAt + PENDING_TIMEOUT

Due(id) == id \in DOMAIN sessions /\ now > deadline(id)

\* C21: with the sweeper kept running, a session whose two sides were never
\* attached together is removed by the first sweep later than createdAt + 5
\* min, whatever one-sided attaching and detaching went on, and a session that
\* became connected by the first sweep later than 24 h after the last time
\* both sides became attached: a sweep that removes anything removes every
\* session past that time, and a session past it does not stay.
C21_SweeperRemoves ==
    /\ [][SweptNow => \A id \in DOMAIN sessions : Due(id) => id \notin DOMAIN sessions']_vars
    /\ \A id \in SessionIds : Due(id) ~> ~Due(id)

\* the sweeper has removed a session that only ever had a DApp, detached
\* again, 5 min after its creation, and then the next session of that id 24 h
\* after its Mobile joined its DApp
C21_Witness ==
    \E c1, c2, c3 \in Conns :
      /\ sessions = << >>
      /\ now = PENDING_TIMEOUT + 1 + CONNECTED_TIMEOUT + 1
      /\ reg[c1].result = "ok" /\ crole[c1] = "dapp" /\ closeInfo[c1] = NoClose
      /\ cstate[c1] = "closed"
      /\ reg[c2].result = "ok" /\ crole[c2] = "dapp" /\ closeInfo[c2] = SessionExpired
      /\ reg[c3].result = "ok" /\ reg[c3].existingPeer = c2 /\ closeInfo[c3] = SessionExpired

(* ---- C22 ---- *)
\* this step stores a record as createSession builds it at this moment, where
\* there was none or another one
CreatedNow ==
    \E id \in DOMAIN sessions' :
      /\ \E secret \in Secrets : \E metadata \in Metadatas :
           sessions'[id] = newSession(sessions'[id].id, secret, metadata, now)
      /\ id \in DOMAIN sessions => sessions[id] # sessions'[id]

\* C22: createSession never returns an id that is a key of the store and
\* never overwrites a record: through creates, deletes and sweeps every record
\* is stored under its own id, and a create makes the store one larger and
\* leaves every record that was there as it was.
C22_FreshId ==
    [][/\ \A id \in DOMAIN sessions' : sessions'[id].id = id
       /\ CreatedNow =>
            /\ Cardinality(DOMAIN sessions') = Cardinality(DOMAIN sessions) + 1
            /\ \A id \in DOMAIN sessions :
                 id \in DOMAIN sessions' /\ sessions'[id] = sessions[id]]_vars

\* two sessions are stored under their own ids, the second created after the
\* clock went on
C22_Witness ==
    \E a, b \in DOMAIN sessions :
      /\ a # b
      /\ sessions[a].createdAt = 0
      /\ sessions[b].createdAt > PENDING_TIMEOUT
      /\ sessions[b].status = "pending"

(* ---- C23 ---- *)
\* C23: createSession at time now returns and stores a record with status
\* 'pending', expiresAt = now + 5 min, dapp = null, mobile = null,
\* mobileLocked = false, terminated = false and the given metadata.
C23_CreateRecord ==
    \A draws \in Draws : \A secret \in Secrets : \A metadata \in Metadatas :
      loopRun(sessions, draws) =>
        LET r == createSession(sessions, draws, secret, metadata, now)
            s == r.session
        IN /\ s.id \in DOMAIN r.sessions /\ r.sessions[s.id] = s
           /\ s.status = "pending"
           /\ s.expiresAt = now + PENDING_TIMEOUT
           /\ s.dapp = NoConn /\ s.mobile = NoConn
           /\ s.mobileLocked = FALSE
           /\ s.metadata = metadata
           /\ "terminated" \in DOMAIN s /\ s.terminated = FALSE

(* ---- C24 ---- *)
\* C24: a successful registerConnection at time now that leaves both slots
\* occupied sets status = 'connected' and expiresAt = now + 24 h; one that
\* leaves the other slot empty changes neither status nor expiresAt.
C24_ExpiryOnRegister ==
    \A id \in SessionIds : \A role \in Roles : \A ws \in Conns :
      LET r == registerConnection(sessions, id, role, ws, now)
      IN r.ok =>
           LET s0 == sessions[id]
               s1 == r.sessions[id]
           IN /\ slotOf(r.sessions, id, role) = ws
              /\ IF s1.dapp # NoConn /\ s1.mobile # NoConn
                 THEN /\ s1.status = "connected"
                      /\ s1.expiresAt = now + CONNECTED_TIMEOUT
                 ELSE /\ s1.status = s0.status
                      /\ s1.expiresAt = s0.expiresAt

\* after the clock went on one session became connected, with 24 h from then,
\* and another has only its DApp attached and is pending with its 5 min
C24_Witness ==
    \E a, b \in DOMAIN sessions :
      /\ now > 0
      /\ sessions[a].createdAt = 0
      /\ sessions[a].status = "connected"
      /\ sessions[a].dapp # NoConn /\ sessions[a].mobile # NoConn
      /\ sessions[a].expiresAt = now + CONNECTED_TIMEOUT
      /\ sessions[b].status = "pending"
      /\ sessions[b].dapp # NoConn /\ sessions[b].mobile = NoConn
      /\ sessions[b].expiresAt = sessions[b].createdAt + PENDING_TIMEOUT

(* ---- C25 ---- *)
\* an id generateSessionId can return that is never stored here
UnknownId == "Q4T8"

\* C25: unregisterConnection(id, role) on a stored session clears the slot of
\* that role only (and mobileLocked when the role is mobile), sets status =
\* 'disconnected', leaves the other slot, the secret and expiresAt as they
\* were and keeps the record; on an unknown id it changes nothing.
C25_UnregisterFrame ==
    \A id \in SessionIds \cup {UnknownId} : \A role \in Roles :
      LET ss1 == unregisterConnection(sessions, id, role)
      IN IF id \notin DOMAIN sessions THEN ss1 = sessions
         ELSE /\ DOMAIN ss1 = DOMAIN sessions
              /\ \A x \in (DOMAIN sessions) \ {id} : ss1[x] = sessions[x]
              /\ slotOf(ss1, id, role) = NoConn
              /\ slotOf(ss1, id, otherRole(role)) = slotOf(sessions, id, otherRole(role))
              /\ ss1[id].mobileLocked = (IF role = "mobile" THEN FALSE
                                         ELSE sessions[id].mobileLocked)
              /\ ss1[id].status = "disconnected"
              /\ ss1[id].secret = sessions[id].secret
              /\ ss1[id].expiresAt = sessions[id].expiresAt
              /\ ss1[id].createdAt = sessions[id].createdAt
              /\ ss1[id].id = sessions[id].id
              /\ ss1[id].metadata = sessions[id].metadata

\* the DApp of a connected session was unregistered: the session is
\* disconnected, its Mobile still attached and locked, its 24 h as they were,
\* while the other id is not in the store
C25_Witness ==
    \E a \in DOMAIN sessions :
      /\ sessions[a].status = "disconnected"
      /\ sessions[a].dapp = NoConn
      /\ sessions[a].mobile # NoConn /\ sessions[a].mobileLocked
      /\ a \in DOMAIN bothAt
      /\ sessions[a].expiresAt = bothAt[a] + CONNECTED_TIMEOUT
      /\ \E b \in SessionIds : b \notin DOMAIN sessions

(* ---- C26 ---- *)
\* the ids a client can ask for: the stored ones and one never stored
InfoIds == SessionIds \cup {UnknownId}

\* the answer to an id that is unknown or terminated, and for any other the
\* values of the properties the response has
infoAnswer(id, r) ==
    IF id \notin DOMAIN sessions THEN r.status = 404 /\ DOMAIN r = {"status"}
    ELSE IF isTerminated(sessions[id]) THEN r.status = 410 /\ DOMAIN r = {"status"}
    ELSE /\ r.status = 200
         /\ \A f \in DOMAIN r.body : r.body[f] = sessions[id][f]

\* C26: GET /session/:id answers 404 for an unknown id, 410 for a terminated
\* session, and otherwise with exactly the fields id, status, metadata and
\* expiresAt; no response contains the secret.
C26_InfoFields ==
    \A id \in InfoIds :
      LET r == getSessionResponse(sessions, id)
      IN /\ infoAnswer(id, r)
         /\ r.status = 200 =>
              /\ DOMAIN r.body = {"id", "status", "metadata", "expiresAt"}
              /\ r.body.id # sessions[id].secret
              /\ r.body.status # sessions[id].secret
              /\ r.body.metadata # sessions[id].secret

\* C26 as the code has it: the response to a session created without
\* metadata has the fields id, status and expiresAt only; with metadata it has
\* the four fields; the secret is in neither.
C26_InfoFieldsOptionalMetadata ==
    \A id \in InfoIds :
      LET r == getSessionResponse(sessions, id)
      IN /\ infoAnswer(id, r)
         /\ r.status = 200 =>
              /\ DOMAIN r.body = {"id", "status", "expiresAt"}
                     \cup (IF sessions[id].metadata # undefined THEN {"metadata"} ELSE {})
              /\ \A f \in (DOMAIN r.body) \ {"expiresAt"} : r.body[f] # sessions[id].secret

\* one session is terminated and answered with 410, the other was created
\* without metadata, has both sides attached and is answered with 200 and
\* three fields
C26_Witness ==
    \E a, b \in DOMAIN sessions :
      /\ isTerminated(sessions[a])
      /\ getSessionResponse(sessions, a).status = 410
      /\ ~isTerminated(sessions[b])
      /\ sessions[b].metadata = undefined
      /\ sessions[b].status = "connected"
      /\ getSessionResponse(sessions, b).status = 200
      /\ DOMAIN getSessionResponse(sessions, b).body = {"id", "status", "expiresAt"}
      /\ getSessionResponse(sessions, UnknownId).status = 404

(* ---- C27 ---- *)
\* this step is the onclose handler of socket s, with event.code = code
ClosedWith(s, code) ==
    /\ socks[s].state # "closed"
    /\ socks'[s].state = "closed"
    /\ socks'[s].code = code

\* this step creates no WebSocket and changes no socket but s
NoSocketBut(s) == \A x \in Socks \ {s} : socks'[x] = socks[x]

C28_CloseOwnSlotOnly ==
    [][\A c \in Conns :
         (ClosedNow(c) /\ ~attached(c)) =>
           /\ sessions' = sessions
           /\ inbox' = inbox]_vars

(* ---- C29 ---- *)
\* C29: only the connection held in a slot has its frames forwarded: a frame
\* sent on a connection that is not in the slot of its role (a replaced DApp
\* that is still open, a rejected Mobile) is delivered to no other connection.
C29_ForwardHolderOnly ==
    [][\A c \in Conns :
         (SentNow(c) /\ ~attached(c)) =>
           \A x \in Conns \ {c} : inbox'[x] = inbox[x]]_vars

(* ---- C30 ---- *)
\* connection c registered with a session of this id that is no longer the
\* stored one, and is still open (it was in no slot when the sweeper removed
\* its session, so the sweeper did not close it): the stored session was
\* created after the clock last moved, and is pending with the slot of c's
\* role empty, so no connection of that role ever registered with it
Stale(c) ==
    /\ reg[c].result = "ok"
    /\ cstate[c] = "open"
    /\ csid[c] \in DOMAIN sessions
    /\ sessions[csid[c]].createdAt = now /\ now > 0
    /\ sessions[csid[c]].status = "pending"
    /\ slotOf(sessions, csid[c], crole[c]) = NoConn

\* C30: after a session is swept and a session with the same id is created,
\* no frame sent on a connection of the removed session is forwarded to a
\* peer of the new one, and the close of such a connection changes nothing
\* in the new session.
C30_IdReuseIsolated ==
    [][\A c \in Conns :
         Stale(c) =>
           /\ SentNow(c) => \A x \in Conns \ {c} : inbox'[x] = inbox[x]
           /\ ClosedNow(c) => sessions' = sessions]_vars

(* ---- C31 ---- *)
\* C31: a session that is past its expiresAt and not yet swept accepts no
\* attachment: no handshake that names it is answered with 101, and no open
\* handler that finds it registers its connection, so it does not become
\* connected with a new expiry.
C31_ExpiredRefusesAttach ==
    [][LET Expired(sessionId) == /\ sessionId \in DOMAIN sessions
                                 /\ now > sessions[sessionId].expiresAt
       IN \A c \in Conns :
            /\ (cstate[c] = "new" /\ cstate'[c] = "upgraded") => ~Expired(csid'[c])
            /\ (OpenedNow(c) /\ Expired(csid[c]))
                 => /\ reg'[c].result # "ok"
                    /\ sessions' = sessions]_vars

(* ---- C32 ---- *)
\* C32: in every state of the store a session whose dapp and mobile slots are
\* both non-null has status connected, and a stored session that has left
\* status pending does not return to it.
C32_BothMeansConnected ==
    /\ [](\A id \in DOMAIN sessions :
            (sessions[id].dapp # NoConn /\ sessions[id].mobile # NoConn)
              => sessions[id].status = "connected")
    /\ [][\A id \in DOMAIN sessions :
            (sessions[id].status # "pending" /\ id \in DOMAIN sessions')
              => sessions'[id].status # "pending"]_vars

\* one session lost its DApp, got a DApp again and is connected with a new
\* expiry, later than the one of its first pairing; another lost its only
\* side and is disconnected with both slots empty
C32_Witness ==
    \E a, b \in DOMAIN sessions :
      /\ sessions[a].status = "connected"
      /\ sessions[a].dapp # NoConn /\ sessions[a].mobile # NoConn
      /\ sessions[a].expiresAt > sessions[a].createdAt + PENDING_TIMEOUT + CONNECTED_TIMEOUT
      /\ sessions[b].status = "disconnected"
      /\ sessions[b].dapp = NoConn /\ sessions[b].mobile = NoConn
      /\ sessions[b].expiresAt = sessions[b].createdAt + PENDING_TIMEOUT

(* ---- C33 ---- *)
\* C33: the expiresAt of a stored session never decreases; it changes only in
\* the open handler whose registerConnection succeeds and leaves both slots
\* occupied, and then to now + 24 h; a forwarded frame, a close, a refused
\* registration and a sweep that keeps the session leave it as it was.
C33_ExpiryMonotone ==
    [][\A id \in (DOMAIN sessions) \cap (DOMAIN sessions') :
         /\ sessions'[id].expiresAt >= sessions[id].expiresAt
         /\ sessions'[id].expiresAt # sessions[id].expiresAt
              => \E c \in Conns :
                   /\ OpenedNow(c) /\ csid[c] = id
                   /\ reg'[c].result = "ok"
                   /\ sessions'[id].dapp # NoConn /\ sessions'[id].mobile # NoConn
                   /\ sessions'[id].expiresAt = now + CONNECTED_TIMEOUT
         /\ (\E c \in Conns : SentNow(c) \/ ClosedNow(c)
                                \/ (OpenedNow(c) /\ reg'[c].result # "ok"))
              => sessions'[id].expiresAt = sessions[id].expiresAt]_vars

\* a session paired at time 0 is past its 24 h, still connected, and a frame
\* sent on one side has reached the other: its expiresAt is the one of the
\* pairing
C33_Witness ==
    \E id \in DOMAIN sessions :
      /\ sessions[id].status = "connected"
      /\ sessions[id].expiresAt = CONNECTED_TIMEOUT
      /\ now > sessions[id].expiresAt
      /\ \E c \in Conns :
           /\ attached(c) /\ csid[c] = id
           /\ \E i \in Indices(inbox[peerSlot(c)]) : inbox[peerSlot(c)][i].src = c

(* ---- C34 ---- *)
\* C34: check(k) called when k has no entry, or at a time that has reached the
\* resetAt of its entry, returns true and replaces the entry by
\* {count: 1, resetAt: now + windowMs}, whatever the count was; the entries of
\* the other keys stay.
C34_FreshWindow ==
    \A k \in ClientIPs :
      (k \notin DOMAIN entries \/ now >= entries[k].resetAt)
        => LET r == check(entries, config, k, now)
           IN /\ r.ok
              /\ DOMAIN r.entries = (DOMAIN entries) \cup {k}
              /\ r.entries[k] = [count |-> 1, resetAt |-> now + config.windowMs]
              /\ \A x \in (DOMAIN entries) \ {k} : r.entries[x] = entries[x]

\* a key used up its window, was turned away in it, and its next call, made
\* at the very millisecond of resetAt, was accepted and opened the window the
\* entry now holds
C34_Witness ==
    \E k \in DOMAIN entries : \E i, j \in Indices(calls[k]) :
      /\ i < j /\ j + 1 = Len(calls[k])
      /\ calls[k][i].opened
      /\ j \in inWindow(k, i) /\ ~calls[k][j].ok
      /\ calls[k][j + 1].t = calls[k][i].t + config.windowMs
      /\ calls[k][j + 1].ok /\ calls[k][j + 1].opened
      /\ entries[k] = [count |-> 1, resetAt |-> calls[k][j + 1].t + config.windowMs]

(* ---- C35 ---- *)
\* C35: getInfo(k) returns, for a key whose window is running, remaining =
\* max(0, maxRequests - the check(k) calls accepted since the call that opened
\* the window) and the resetAt of the window, so rejected calls do not count;
\* for a key with no entry or with a window that is over it returns
\* remaining = maxRequests and resetAt = now + windowMs; the count of an entry
\* never exceeds maxRequests.
C35_InfoCounters ==
    \A k \in ClientIPs :
      LET info == getInfo(entries, config, k, now)
          last == CHOOSE i \in Indices(calls[k]) :
                    calls[k][i].opened
                      /\ \A j \in Indices(calls[k]) : calls[k][j].opened => j <= i
          accepted == Cardinality({j \in Indices(calls[k]) : j >= last /\ calls[k][j].ok})
      IN /\ k \in DOMAIN entries => entries[k].count <= config.maxRequests
         /\ IF k \notin DOMAIN entries \/ now >= entries[k].resetAt
            THEN info = [remaining |-> config.maxRequests,
                         resetAt |-> now + config.windowMs]
            ELSE /\ info.remaining =
                      (IF config.maxRequests - accepted > 0
                       THEN config.maxRequests - accepted ELSE 0)
                 /\ info.resetAt = calls[k][last].t + config.windowMs
                 /\ info.resetAt = entries[k].resetAt

\* in a running window of a limiter that allows two requests, one key has had
\* one call accepted, another has used up the window and was turned away, and
\* a third call of the first was made in an earlier window
C35_Witness ==
    \E k1, k2 \in DOMAIN entries :
      /\ config.maxRequests = 2
      /\ now < entries[k1].resetAt /\ now < entries[k2].resetAt
      /\ getInfo(entries, config, k1, now).remaining = 1
      /\ Len(calls[k1]) > 1
      /\ getInfo(entries, config, k2, now).remaining = 0
      /\ \E j \in Indices(calls[k2]) : ~calls[k2][j].ok

(* ---- C36 ---- *)
\* C36: every 429 response of POST /session carries X-RateLimit-Remaining: 0
\* and a Retry-After of at least 1 second that is ceil((resetAt - now) / 1000)
\* for the window in which check turned the request away, the handler reading
\* the clock apart in check, in getInfo and for Retry-After.
C36_RetryAfterHeaders ==
    postResp.status = 429
      => /\ postResp.remaining = 0
         /\ postResp.retryAfter >= 1
         /\ postResp.retryAfter = -((-(postResp.window - postResp.at)) \div 1000)

C38_ReconnectBudget ==
    /\ [](provider.reconnectAttempts \in 0..maxReconnectAttempts)
    /\ [][\A s \in Socks :
            /\ (socks[s].state = "connecting" /\ socks'[s].state = "open")
                 => provider'.reconnectAttempts = 0
            /\ (~provider.userInitiatedDisconnect
                  /\ \E code \in CloseCodes \ {1008} : ClosedWith(s, code))
                 => IF provider.reconnectAttempts < maxReconnectAttempts
                    THEN /\ provider'.reconnectAttempts = provider.reconnectAttempts + 1
                         /\ emitted' = Append(emitted,
                                              ReconnectInfo(provider.reconnectAttempts + 1))
                         /\ provider'.reconnectTimer
                    ELSE /\ emitted' = Append(emitted, DisconnectInfo(4900, FALSE))
                         /\ ~provider'.reconnectTimer /\ provider'.strayTimers = 0
                         /\ \A x \in Socks : socks'[x].state \in {"unused", "closed"}]_vars

(* ---- C39 ---- *)
\* C39: the ids of requests are positive integers, each greater than every id
\* issued before; handleResponse of a frame whose id is pending removes that
\* request and its timer and settles it once (reject with the error's code
\* when the frame has an error, resolve with its result otherwise), leaving
\* every other request as it was; a frame whose id is not pending changes
\* nothing; no request is settled twice.
C39_ResponseMatchesId ==
    /\ [](/\ rpc.pendingRequests \cup DOMAIN rpc.settled \subseteq 1..rpc.requestId
          /\ \A id \in DOMAIN rpc.settled :
               Len(rpc.settled[id]) = 1 /\ id \notin rpc.pendingRequests
          /\ \A message \in ResponseFrames :
               LET r == handleResponse(rpc, message)
                   id == message.id
               IN IF id \notin rpc.pendingRequests THEN r = rpc
                  ELSE /\ r.requestId = rpc.requestId
                       /\ r.pendingRequests = rpc.pendingRequests \ {id}
                       /\ DOMAIN r.timers = (DOMAIN rpc.timers) \ {id}
                       /\ \A x \in DOMAIN r.timers : r.timers[x] = rpc.timers[x]
                       /\ DOMAIN r.settled = (DOMAIN rpc.settled) \cup {id}
                       /\ \A x \in DOMAIN rpc.settled : r.settled[x] = rpc.settled[x]
                       /\ r.settled[id] =
                            <<IF "error" \in DOMAIN message
                              THEN [call |-> "reject", code |-> 4001]
                              ELSE [call |-> "resolve", result |-> message.result]>>)
    /\ [][/\ rpc'.requestId >= rpc.requestId
          /\ \A id \in rpc'.pendingRequests \ rpc.pendingRequests :
               id = rpc'.requestId /\ id > rpc.requestId]_vars

\* request 1 was resolved by its response and request 2, sent after it,
\* rejected by the error of its own response
C39_Witness ==
    /\ rpc.requestId = 2
    /\ rpc.pendingRequests = {}
    /\ DOMAIN rpc.settled = {1, 2}
    /\ rpc.settled[1] = <<[call |-> "resolve", result |-> "0xsignature123"]>>
    /\ rpc.settled[2] = <<[call |-> "reject", code |-> 4001]>>

(* ---- C40 ---- *)
\* C40: every request that was sent is settled in the end, and exactly once:
\* while it is pending its timer runs, due 60 s after the request was sent,
\* and it is not settled; afterwards it has one settlement, by its response
\* or by the timer's rejection with code -32003, which does not come before
\* the timer is due; a closed socket, a 'disconnect' frame of the peer or
\* disconnect() take no request out of this, and none stays pending for ever.
C40_SettledExactlyOnce ==
    /\ \A id \in 1..MaxRequests :
         (id \in rpc.pendingRequests)
           ~> (id \notin rpc.pendingRequests /\ id \in DOMAIN rpc.settled)
    /\ [](\A id \in 1..rpc.requestId :
            IF id \in rpc.pendingRequests
            THEN id \in DOMAIN rpc.timers /\ id \notin DOMAIN rpc.settled
            ELSE /\ id \notin DOMAIN rpc.timers
                 /\ id \in DOMAIN rpc.settled
                 /\ Len(rpc.settled[id]) = 1
                 /\ rpc.settled[id][1].call \in {"resolve", "reject"}
                 /\ rpc.settled[id][1].call = "reject"
                      => rpc.settled[id][1].code \in {4001, -32003})
    /\ [][\A id \in 1..MaxRequests :
            /\ (id \notin rpc.pendingRequests /\ id \in rpc'.pendingRequests)
                 => rpc'.timers[id] = now + REQUEST_TIMEOUT
            /\ (id \in rpc.pendingRequests /\ id \notin rpc'.pendingRequests
                  /\ rpc'.settled[id] = <<[call |-> "reject", code |-> -32003]>>)
                 => now' >= rpc.timers[id]]_vars

\* request 1 got its response; request 2 was pending when the last socket
\* was gone and was rejected by its timer, 60 s after it was sent
C40_Witness ==
    /\ rpc.requestId = 2
    /\ rpc.pendingRequests = {}
    /\ rpc.settled[1] = <<[call |-> "resolve", result |-> "0xsignature123"]>>
    /\ rpc.settled[2] = <<[call |-> "reject", code |-> -32003]>>
    /\ now = REQUEST_TIMEOUT
    /\ ~provider.connected
    /\ \A s \in Socks : socks[s].state \in {"closed", "unused"}

====
